---- MODULE Spec2Model ----
(***************************************************************************)
(* WordPress Site Health Analyzer: the Detection & Scoring Engine.         *)
(*                                                                         *)
(* Two entry points analyse one fetched page: the Express backend          *)
(* (WordPressAnalyzer with its SecurityAnalyzer, GDPRAnalyzer,             *)
(* AccessibilityAnalyzer and ScoreCalculator) and the Cloudflare worker    *)
(* (analyzeWebsite and its helper functions).  A request walks through     *)
(* the stages security -> gdpr -> accessibility -> score -> overall ->     *)
(* recommend -> report; `pc` is the stage the request is at.               *)
(***************************************************************************)
EXTENDS Integers, Sequences, FiniteSets, TLC

VARIABLES
    engine,          \* "backend" (Express) or "worker" (Cloudflare worker)
    pc,              \* stage of the request being analysed
    doc,             \* the fetched page: markup the analyzers query
    net,             \* what the worker's HEAD probes of the url answer
    clock,           \* the wall clock read by new Date()
    security,        \* SecurityResult of the request
    gdpr,            \* GDPRResult of the request
    accessibility,   \* AccessibilityResult of the request
    categoryScores,  \* { security, gdpr, accessibility } handed to the aggregator
    overallScore,    \* the weighted overall score
    recommendations, \* the recommendations of the request
    reports,         \* the AnalysisResults returned so far, oldest first
    request,         \* the url query parameter of GET /api/analyze
    page,            \* what the target answers to the fetch of the page
    sent,            \* the requests issued to the target so far, oldest first
    response,        \* the handler's answer to the caller
    grades,          \* the letter grades the frontend shows for the report
    db,              \* the D1 database: admin_sessions and search_analytics
    logged,          \* the arguments of the logSearchAnalytics calls so far
    admin,           \* the admin requests answered so far and the last answer
    panel            \* the admin frontend: AdminPanel's state and localStorage

vars == <<engine, pc, doc, net, clock, security, gdpr, accessibility, categoryScores,
          overallScore, recommendations, reports, request, page, sent, response, grades, db, logged, admin, panel>>

Engines == {"backend", "worker"}

\* A result that has not been produced yet.
Pending == [pending |-> TRUE]

\* The answers to the worker's two HEAD probes of the url (the backend sends
\* none):  https is whether the url's protocol is https:, sslHead what
\* analyzeSSLCertificate's fetch gives ("ok", "notok" for a non-2xx status,
\* "throws"), headersHead what analyzeSecurityHeaders' fetch gives, and
\* headers the names of the response headers of the latter.
NoProbes == [https |-> TRUE, sslHead |-> "ok", headersHead |-> "ok", headers |-> {}]

\* The url parameter as the handler reads it: absent, given once (a string),
\* or given several times (an array in Express; the worker reads the first).
UrlParam(kind, value) == [kind |-> kind, value |-> value]

HttpUrl  == <<"http:", "//", "example.com">>
HttpsUrl == <<"https:", "//", "example.com", "/", "blog">>

\* What the target does with the fetch of the page: it answers with a status,
\* the connection fails ("throws"), or nothing ever comes back ("hangs").
PageAnswer(outcome, status) == [outcome |-> outcome, status |-> status]

\* schema.sql: the two tables, empty
EmptyDatabase == [sessions |-> {}, searches |-> <<>>]

\* null: what localStorage.getItem gives for a missing key, and the initial
\* sessionToken
Null == <<"null">>

\* The admin frontend before AdminPanel is mounted: useState(null),
\* useState(true), AdminLogin's useState(false); stored is
\* localStorage['adminSessionToken'], inflight the fetches not yet answered,
\* last the latest thing that happened to the panel.
ClosedPanel(stored) ==
    [mounted |-> FALSE, loading |-> TRUE, sessionToken |-> Null, stored |-> stored,
     submitting |-> FALSE, inflight |-> <<>>, last |-> "none"]

\* no admin request has been made
ServerIdle ==
    /\ db = EmptyDatabase
    /\ logged = <<>>
    /\ admin = [issued |-> <<>>, revoked |-> {}, deleted |-> {},
                last |-> [op |-> "none", token |-> <<>>, status |-> 0, error |-> ""]]

\* nothing has been logged, no admin request has been made and the admin
\* frontend is not open
AdminIdle ==
    /\ ServerIdle
    /\ panel = ClosedPanel(Null)

\* The state analyzeWebsite / WordPressAnalyzer.analyze is in once the page
\* has been fetched with a 200 answer: the analyzers are about to run.
FetchedOk ==
    /\ request = UrlParam("string", IF net.https THEN HttpsUrl ELSE HttpUrl)
    /\ page = PageAnswer("response", 200)
    /\ sent = <<"GET">>
    /\ response = Pending
    /\ grades = Pending
    /\ AdminIdle

Max(a, b) == IF a >= b THEN a ELSE b
Min(a, b) == IF a <= b THEN a ELSE b

\* Math.max(0, Math.min(100, score))
\* a slip: the upper bound forgotten, Math.max(0, score)
Clamp_NoCeiling(x) == IF x >= 0 THEN x ELSE 0

Clamp(score) == Max(0, Min(100, score))

(***************************************************************************)
(* IEEE-754 double arithmetic, as far as the score aggregator needs it.    *)
(* Every double that occurs is a non-negative multiple of 2^-54 below 128, *)
(* so it is held exactly as the integer N = value * 2^54, written in three *)
(* limbs of 21 bits <<n2, n1, n0>> (N = n2*2^42 + n1*2^21 + n0).           *)
(***************************************************************************)
LimbBase == 2 ^ 21

Pow2(k) == 2 ^ k

RECURSIVE BitLen(_)
BitLen(n) == IF n = 0 THEN 0 ELSE 1 + BitLen(n \div 2)

\* Carry propagation of a limb triple.
Norm(n2, n1, n0) ==
    LET m1 == n1 + (n0 \div LimbBase)
    IN  <<n2 + (m1 \div LimbBase), m1 % LimbBase, n0 % LimbBase>>

\* Round an exact value to 53 significant bits, ties to even: the rounding
\* every double operation performs on its exact result.
RoundToDouble(x) ==
    IF x[1] = 0 THEN x
    ELSE LET k == 42 + BitLen(x[1]) - 53
         IN  IF k <= 0 THEN x
             ELSE LET p    == Pow2(k)
                      low  == x[3] % p
                      half == p \div 2
                      up   == \/ low > half
                              \/ low = half /\ (x[3] \div p) % 2 = 1
                  IN  Norm(x[1], x[2], x[3] - low + (IF up THEN p ELSE 0))

\* score * weight, score an integer-valued double.
DoubleMul(weight, score) ==
    RoundToDouble(Norm(weight[1] * score, weight[2] * score, weight[3] * score))

\* x + y
DoubleAdd(x, y) == RoundToDouble(Norm(x[1] + y[1], x[2] + y[2], x[3] + y[3]))

\* Math.round(x): the integer nearest to x, a tie going up; exact on x.
MathRound(x) == Norm(x[1] + 2048, x[2], x[3])[1] \div 4096

\* The doubles nearest to the weight literals.
Double_0_5  == <<2048, 0, 0>>
Double_0_25 == <<1024, 0, 0>>
Double_0_4  == <<1638, 838860, 1677722>>
Double_0_3  == <<1228, 1677721, 1258291>>

\* ScoreCalculator: SECURITY_WEIGHT, GDPR_WEIGHT, ACCESSIBILITY_WEIGHT
ScoreCalculator_Weights ==
    [security |-> Double_0_5, gdpr |-> Double_0_25, accessibility |-> Double_0_25]

\* worker calculateOverallScore: weights
Worker_Weights ==
    [security |-> Double_0_4, gdpr |-> Double_0_3, accessibility |-> Double_0_3]

WeightedRound(w, cs) ==
    MathRound(DoubleAdd(DoubleAdd(DoubleMul(w.security, cs.security),
                                  DoubleMul(w.gdpr, cs.gdpr)),
                        DoubleMul(w.accessibility, cs.accessibility)))

\* ScoreCalculator.calculateOverallScore
ScoreCalculator_calculateOverallScore(cs) == WeightedRound(ScoreCalculator_Weights, cs)

\* worker calculateOverallScore
calculateOverallScore(cs) == WeightedRound(Worker_Weights, cs)

\* ScoreCalculator.getScoreGrade
getScoreGrade(score) ==
    IF score >= 90 THEN "A"
    ELSE IF score >= 80 THEN "B"
    ELSE IF score >= 70 THEN "C"
    ELSE IF score >= 60 THEN "D"
    ELSE "F"

\* a slip: the thresholds are exclusive
ScoreCard_getScoreGrade_Exclusive(score) ==
    IF score > 90 THEN "A"
    ELSE IF score > 80 THEN "B"
    ELSE IF score > 70 THEN "C"
    ELSE IF score > 60 THEN "D"
    ELSE "F"

\* getScoreGrade of components/ScoreCard.tsx
ScoreCard_getScoreGrade(score) ==
    IF score >= 90 THEN "A"
    ELSE IF score >= 80 THEN "B"
    ELSE IF score >= 70 THEN "C"
    ELSE IF score >= 60 THEN "D"
    ELSE "F"

\* getScoreGrade of components/SimpleApp.tsx
SimpleApp_getScoreGrade(score) ==
    IF score >= 90 THEN "A"
    ELSE IF score >= 80 THEN "B"
    ELSE IF score >= 70 THEN "C"
    ELSE IF score >= 60 THEN "D"
    ELSE "F"

(***************************************************************************)
(* Text.  A string is a sequence of tokens: a token is a character the     *)
(* code's patterns look at one by one (digits, ".", " ", "/") or a word    *)
(* they treat as a whole ("WordPress", "wp-content", "ver=").              *)
(***************************************************************************)
\* attr() of a missing attribute, an optional field left unset
Undefined == <<"undefined">>

\* if (s): a string that is neither undefined nor empty
Truthy(s) == s # Undefined /\ s # <<>>

\* s.includes(tok)
Includes(s, tok) == s # Undefined /\ \E i \in 1 .. Len(s) : s[i] = tok

Digits == {"0", "1", "2", "3", "4", "5", "6", "7", "8", "9"}

\* the character class [\d.]
VersionChars == Digits \cup {"."}

DigitVal(d) ==
    CASE d = "0" -> 0 [] d = "1" -> 1 [] d = "2" -> 2 [] d = "3" -> 3 [] d = "4" -> 4
      [] d = "5" -> 5 [] d = "6" -> 6 [] d = "7" -> 7 [] d = "8" -> 8 [] d = "9" -> 9

\* Length of the longest run of tokens of `class` that starts at position i.
RECURSIVE RunLen(_, _, _)
RunLen(s, i, class) ==
    IF i > Len(s) \/ s[i] \notin class THEN 0 ELSE 1 + RunLen(s, i + 1, class)

\* s.match(/<word><gap>+([\d.]+)/) with gap = \s, or /<word>([\d.]+)/ when
\* spaced is FALSE: the capture group of the leftmost match, or Undefined.
MatchVersionAfter(s, word, spaced) ==
    LET gapAt(i)  == IF spaced THEN RunLen(s, i + 1, {" "}) ELSE 0
        startAt(i) == i + 1 + gapAt(i)
        ok(i)     == /\ s[i] = word
                     /\ spaced => gapAt(i) >= 1
                     /\ RunLen(s, startAt(i), VersionChars) >= 1
        hits      == {i \in 1 .. Len(s) : ok(i)}
    IN  IF s = Undefined \/ hits = {} THEN Undefined
        ELSE LET i == CHOOSE j \in hits : \A k \in hits : j <= k
             IN  SubSeq(s, startAt(i), startAt(i) + RunLen(s, startAt(i), VersionChars) - 1)

\* The value of a run of digits.
RECURSIVE DigitsValue(_)
DigitsValue(ds) ==
    IF ds = <<>> THEN 0
    ELSE 10 * DigitsValue(SubSeq(ds, 1, Len(ds) - 1)) + DigitVal(ds[Len(ds)])

\* parseFloat(s) for s made of digits and dots: the longest prefix
\* digits [ "." digits ]; NaN when that prefix holds no digit.  The number is
\* num / 10^scale.
parseFloat(s) ==
    LET n1   == RunLen(s, 1, Digits)
        dot  == n1 + 1 <= Len(s) /\ s[n1 + 1] = "."
        n2   == IF dot THEN RunLen(s, n1 + 2, Digits) ELSE 0
        ints == SubSeq(s, 1, n1)
        frac == IF dot THEN SubSeq(s, n1 + 2, n1 + 1 + n2) ELSE <<>>
    IN  IF n1 = 0 /\ n2 = 0 THEN [nan |-> TRUE, num |-> 0, scale |-> 0]
        ELSE [nan |-> FALSE, num |-> DigitsValue(ints \o frac), scale |-> n2]

\* x < num/den for a parsed number x (false for NaN)
NumberLess(x, num, den) == ~x.nan /\ x.num * den < num * (10 ^ x.scale)

(***************************************************************************)
(* The document.  Only the markup the analyzers query is kept.             *)
(*   generator : content of the first <meta name="generator">, or Undefined*)
(*   assets    : the <script src>, <link href> and <img src> elements in   *)
(*               document order, each [tag, url]                           *)
(*   marks     : the other elements and texts the selectors look for       *)
(*   images    : the <img> elements in document order, each [alt, role]    *)
(*   headings  : the <h1>..<h6> elements in document order, [level, text]  *)
(*   controls  : the <input>, <textarea>, <select>, <button> and <a>       *)
(*               elements in document order                                *)
(*   labelsFor : the ids some <label for> names                            *)
(*   elements  : the other elements and text nodes in document order, each *)
(*               [tag, id, class, href, src, text]                         *)
(***************************************************************************)
EmptyDoc ==
    [generator |-> Undefined, assets |-> <<>>, marks |-> {},
     images |-> <<>>, headings |-> <<>>, controls |-> <<>>, labelsFor |-> {},
     elements |-> <<>>]

\* a slip: only the script elements are selected
SelectAssets_ScriptsOnly(d, x) ==
    SelectSeq(d.assets, LAMBDA a : a.tag = "script" /\ Includes(a.url, x))

\* $('script[src*="x"], link[href*="x"]'): the script and link elements whose
\* URL contains x, in document order
SelectAssets(d, x) ==
    SelectSeq(d.assets, LAMBDA a : a.tag \in {"script", "link"} /\ Includes(a.url, x))

\* the same for a path of two segments, "wp-content/plugins/" or "wp-content/themes/"
HasPath(url, dir) ==
    \E i \in 1 .. Len(url) :
        /\ url[i] = "wp-content"
        /\ i + 3 <= Len(url)
        /\ url[i + 1] = "/" /\ url[i + 2] = dir /\ url[i + 3] = "/"

SelectAssetsUnder(d, dir) ==
    SelectSeq(d.assets, LAMBDA a : a.tag \in {"script", "link"} /\ HasPath(a.url, dir))

\* src.match(/wp-content\/<dir>\/([^\/]+)/): what follows the first
\* "wp-content/<dir>/" up to the next "/", or Undefined
MatchSlug(url, dir) ==
    LET hits == {i \in 1 .. Len(url) :
                    /\ url[i] = "wp-content"
                    /\ i + 4 <= Len(url)
                    /\ url[i + 1] = "/" /\ url[i + 2] = dir /\ url[i + 3] = "/"
                    /\ url[i + 4] # "/"}
    IN  IF hits = {} THEN Undefined
        ELSE LET i == CHOOSE j \in hits : \A k \in hits : j <= k
                 NotSlash == {url[k] : k \in 1 .. Len(url)} \ {"/"}
             IN  SubSeq(url, i + 4, i + 3 + RunLen(url, i + 4, NotSlash))

(***************************************************************************)
(* SecurityAnalyzer (backend).                                             *)
(***************************************************************************)
\* knownVulnerabilities
knownVulnerabilities ==
    [v \in {<<"6", ".", "0">>, <<"5", ".", "9">>} |->
        IF v = <<"6", ".", "0">>
        THEN << [component |-> <<"WordPress Core">>, version |-> <<"6", ".", "0">>,
                 severity |-> "high",
                 description |-> "Multiple vulnerabilities in WordPress 6.0"] >>
        ELSE << [component |-> <<"WordPress Core">>, version |-> <<"5", ".", "9">>,
                 severity |-> "critical",
                 description |-> "Critical security vulnerabilities in WordPress 5.9"] >>]

\* detectWordPress: the table of detection methods, in table order
detectionMethods(d) ==
    << [method |-> "wp-content paths",   detected |-> Len(SelectAssets(d, "wp-content")) > 0,  isObvious |-> TRUE],
       [method |-> "wp-includes paths",  detected |-> Len(SelectAssets(d, "wp-includes")) > 0, isObvious |-> TRUE],
       [method |-> "wp-admin paths",     detected |-> Len(SelectAssets(d, "wp-admin")) > 0,    isObvious |-> TRUE],
       [method |-> "meta generator",     detected |-> Includes(d.generator, "WordPress"),      isObvious |-> TRUE],
       [method |-> "admin bar",          detected |-> "#wpadminbar" \in d.marks,               isObvious |-> TRUE],
       [method |-> "body classes",       detected |-> "body.wp-" \in d.marks,                  isObvious |-> FALSE],
       [method |-> "pingback link",      detected |-> "link[rel=pingback]" \in d.marks,        isObvious |-> FALSE],
       [method |-> "REST API",           detected |-> "link[rel=https://api.w.org/]" \in d.marks, isObvious |-> FALSE],
       [method |-> "RSD link",           detected |-> "link[rel=EditURI][href*=xmlrpc.php]" \in d.marks, isObvious |-> FALSE],
       [method |-> "shortlink",          detected |-> "link[rel=shortlink]" \in d.marks,       isObvious |-> FALSE],
       [method |-> "WordPress comments", detected |-> "comment:WordPress" \in d.marks,         isObvious |-> FALSE],
       [method |-> "theme patterns",     detected |-> "link[id*=style]" \in d.marks,           isObvious |-> FALSE],
       [method |-> "WordPress scripts",  detected |-> "script:wp_" \in d.marks,                isObvious |-> FALSE],
       [method |-> "login form action",  detected |-> "form[action*=wp-login]" \in d.marks,    isObvious |-> TRUE] >>

MethodNames(ms) == [i \in 1 .. Len(ms) |-> ms[i].method]

\* a slip: the obvious detections are not looked at
isHardenedOf_IgnoringObvious(isWordPress, obviousDetections, subtleDetections) ==
    isWordPress /\ Len(subtleDetections) > 0

isHardenedOf(isWordPress, obviousDetections, subtleDetections) ==
    isWordPress /\ Len(obviousDetections) = 0 /\ Len(subtleDetections) > 0

\* a slip: a standard site's label names the obvious signals only
detectWordPress_ObviousOnly(d) ==
    LET detectedMethods   == SelectSeq(detectionMethods(d), LAMBDA m : m.detected)
        obviousDetections == SelectSeq(detectedMethods, LAMBDA m : m.isObvious)
        subtleDetections  == SelectSeq(detectedMethods, LAMBDA m : ~m.isObvious)
        isWordPress       == Len(detectedMethods) > 0
        isHardened        == isHardenedOf(isWordPress, obviousDetections, subtleDetections)
    IN  [isWordPress |-> isWordPress,
         isHardened  |-> isHardened,
         detectionMethod |->
            IF ~isWordPress THEN [label |-> "Not detected", via |-> <<>>]
            ELSE IF isHardened
                 THEN [label |-> "Hardened WordPress", via |-> MethodNames(subtleDetections)]
                 ELSE [label |-> "Standard WordPress", via |-> MethodNames(obviousDetections)]]

\* SecurityAnalyzer.detectWordPress
detectWordPress(d) ==
    LET detectedMethods   == SelectSeq(detectionMethods(d), LAMBDA m : m.detected)
        obviousDetections == SelectSeq(detectedMethods, LAMBDA m : m.isObvious)
        subtleDetections  == SelectSeq(detectedMethods, LAMBDA m : ~m.isObvious)
        isWordPress       == Len(detectedMethods) > 0
        isHardened        == isHardenedOf(isWordPress, obviousDetections, subtleDetections)
    IN  [isWordPress |-> isWordPress,
         isHardened  |-> isHardened,
         detectionMethod |->
            IF ~isWordPress THEN [label |-> "Not detected", via |-> <<>>]
            ELSE IF isHardened
                 THEN [label |-> "Hardened WordPress", via |-> MethodNames(subtleDetections)]
                 ELSE [label |-> "Standard WordPress", via |-> MethodNames(detectedMethods)]]

\* The version of the first wp-includes asset whose URL carries ver=<version>.
RECURSIVE FirstAssetVersion(_)
FirstAssetVersion(scripts) ==
    IF scripts = <<>> THEN Undefined
    ELSE LET versionMatch == MatchVersionAfter(Head(scripts).url, "ver=", FALSE)
         IN  IF versionMatch # Undefined THEN versionMatch
             ELSE FirstAssetVersion(Tail(scripts))

\* a slip: the asset URLs are tried before the generator
detectWordPressVersion_AssetsFirst(d) ==
    LET fromAssets   == FirstAssetVersion(SelectAssets(d, "wp-includes"))
        versionMatch == MatchVersionAfter(d.generator, "WordPress", TRUE)
    IN  IF fromAssets # Undefined THEN fromAssets
        ELSE IF Truthy(d.generator) /\ Includes(d.generator, "WordPress")
             THEN versionMatch ELSE Undefined

\* SecurityAnalyzer.detectWordPressVersion
detectWordPressVersion(d) ==
    LET generator    == d.generator
        versionMatch == MatchVersionAfter(generator, "WordPress", TRUE)
    IN  IF Truthy(generator) /\ Includes(generator, "WordPress") /\ versionMatch # Undefined
        THEN versionMatch
        ELSE FirstAssetVersion(SelectAssets(d, "wp-includes"))

\* slugToName: the slug split on "-", each word capitalised, joined by " "
slugToName(slug) == <<"TitleCase">> \o slug

\* The distinct slugs of a list, in order of first occurrence (a Set's
\* insertion order).
RECURSIVE UniqueSlugs(_, _, _)
UniqueSlugs(assets, dir, seen) ==
    IF assets = <<>> THEN seen
    ELSE LET slug == MatchSlug(Head(assets).url, dir)
         IN  UniqueSlugs(Tail(assets), dir,
                         IF slug = Undefined \/ \E i \in 1 .. Len(seen) : seen[i] = slug
                         THEN seen ELSE Append(seen, slug))

SlugEntries(slugs) ==
    [i \in 1 .. Len(slugs) |->
        [name |-> slugToName(slugs[i]), slug |-> slugs[i], version |-> Undefined]]

\* SecurityAnalyzer.detectPlugins
detectPlugins(d) == SlugEntries(UniqueSlugs(SelectAssetsUnder(d, "plugins"), "plugins", <<>>))

\* SecurityAnalyzer.detectThemes
detectThemes(d) == SlugEntries(UniqueSlugs(SelectAssetsUnder(d, "themes"), "themes", <<>>))

\* One Vulnerability for each plugin of the deny-list.
RECURSIVE PluginVulnerabilities(_)
PluginVulnerabilities(plugins) ==
    IF plugins = <<>> THEN <<>>
    ELSE (IF Head(plugins).slug = <<"old-vulnerable-plugin">>
          THEN << [component |-> Head(plugins).name, version |-> Head(plugins).version,
                   severity |-> "critical",
                   description |-> "Known vulnerable plugin detected"] >>
          ELSE <<>>)
         \o PluginVulnerabilities(Tail(plugins))

\* versionNumber < 6.4
IsOutdated(version) == NumberLess(parseFloat(version), 64, 10)

\* SecurityAnalyzer.checkVulnerabilities
checkVulnerabilities(version, plugins, themes) ==
    (IF Truthy(version) /\ version \in DOMAIN knownVulnerabilities
     THEN knownVulnerabilities[version] ELSE <<>>)
    \o (IF Truthy(version) /\ IsOutdated(version)
        THEN << [component |-> <<"WordPress Core">>, version |-> version, severity |-> "high",
                 description |-> "WordPress version is outdated and may contain security vulnerabilities"] >>
        ELSE <<>>)
    \o PluginVulnerabilities(plugins)

SeverityPenalty(severity) ==
    CASE severity = "critical" -> 30
      [] severity = "high"     -> 20
      [] severity = "medium"   -> 10
      [] severity = "low"      -> 5
      [] OTHER                 -> 0

RECURSIVE SumPenalties(_)
SumPenalties(vulnerabilities) ==
    IF vulnerabilities = <<>> THEN 0
    ELSE SeverityPenalty(Head(vulnerabilities).severity) + SumPenalties(Tail(vulnerabilities))

\* a slip: no neutral score, the penalties are taken on any page
calculateSecurityScore_NoNeutral(isWordPress, vulnerabilities, version, isHardened) ==
    Clamp(100 + (IF isHardened THEN 15 ELSE 0)
              - SumPenalties(vulnerabilities)
              - (IF ~Truthy(version) THEN (IF isHardened THEN 5 ELSE 10) ELSE 0))

\* a slip: the hardened bonus is left out
calculateSecurityScore_NoBonus(isWordPress, vulnerabilities, version, isHardened) ==
    IF ~isWordPress THEN 50
    ELSE Clamp(100 - SumPenalties(vulnerabilities)
                   - (IF ~Truthy(version) THEN (IF isHardened THEN 5 ELSE 10) ELSE 0))

\* SecurityAnalyzer.calculateSecurityScore
calculateSecurityScore(isWordPress, vulnerabilities, version, isHardened) ==
    IF ~isWordPress THEN 50
    ELSE Clamp(100 + (IF isHardened THEN 15 ELSE 0)
                   - SumPenalties(vulnerabilities)
                   - (IF ~Truthy(version) THEN (IF isHardened THEN 5 ELSE 10) ELSE 0))

\* SecurityAnalyzer.analyze
SecurityAnalyzer_analyze(d) ==
    LET wpDetection      == detectWordPress(d)
        wordpressVersion == detectWordPressVersion(d)
        plugins          == detectPlugins(d)
        themes           == detectThemes(d)
        vulnerabilities  == checkVulnerabilities(wordpressVersion, plugins, themes)
    IN  [isWordPress      |-> wpDetection.isWordPress,
         detectionMethod  |-> wpDetection.detectionMethod,
         isHardened       |-> wpDetection.isHardened,
         wordpressVersion |-> wordpressVersion,
         plugins          |-> plugins,
         themes           |-> themes,
         vulnerabilities  |-> vulnerabilities,
         score            |-> calculateSecurityScore(wpDetection.isWordPress, vulnerabilities,
                                                     wordpressVersion, wpDetection.isHardened)]

\* WordPressAnalyzer.analyze: const security = await this.securityAnalyzer.analyze($, url)
BackendSecurityAnalyze ==
    /\ engine = "backend"
    /\ pc = "security"
    /\ security' = SecurityAnalyzer_analyze(doc)
    /\ pc' = "gdpr"
    /\ UNCHANGED <<engine, doc, net, clock, gdpr, recommendations, reports, accessibility, categoryScores, overallScore,
                   request, page, sent, response, grades, db, logged, admin, panel>>

(***************************************************************************)
(* The pages the backend security analyzer is run on.                      *)
(***************************************************************************)
WpVersions ==
    { <<"5", ".", "9">>, <<"6", ".", "0">>, <<"6", ".", "3", ".", "9">>,
      <<"6", ".", "4">>, <<"6", ".", "4", ".", "1">>, <<"6", ".", "1", "0">> }

Generators ==
    {Undefined, <<"WordPress">>, <<"Joomla", " ", "4", ".", "2">>}
        \cup { <<"WordPress", " ">> \o v : v \in WpVersions }

IncludesScript(ver) ==
    [tag |-> "script",
     url |-> <<"/", "wp-includes", "/", "js", "/", "jquery.js", "?", "ver=">> \o ver]

AssetCatalog ==
    { IncludesScript(<<"6", ".", "4">>),
      IncludesScript(<<"5", ".", "9">>),
      [tag |-> "link",   url |-> <<"/", "wp-includes", "/", "css", "/", "dashicons.css">>],
      [tag |-> "script", url |-> <<"/", "wp-content", "/", "plugins", "/", "old-vulnerable-plugin",
                                   "/", "main.js", "?", "ver=", "6", ".", "0">>],
      [tag |-> "script", url |-> <<"/", "wp-content", "/", "plugins", "/", "contact-form-7",
                                   "/", "index.js">>],
      [tag |-> "link",   url |-> <<"/", "wp-content", "/", "themes", "/", "twentytwenty",
                                   "/", "style.css">>],
      [tag |-> "link",   url |-> <<"/", "wp-admin", "/", "css", "/", "login.css">>],
      [tag |-> "img",    url |-> <<"/", "wp-content", "/", "uploads", "/", "logo.png">>] }

\* at most MaxAssets assets on a page
MaxAssets == 2

AssetLists == UNION { [1 .. n -> AssetCatalog] : n \in 0 .. MaxAssets }

\* markup behind the detection signals that do not read an asset or the generator
DetectionMarks ==
    { "#wpadminbar", "body.wp-", "link[rel=pingback]", "link[rel=https://api.w.org/]",
      "link[rel=EditURI][href*=xmlrpc.php]", "link[rel=shortlink]", "comment:WordPress",
      "link[id*=style]", "script:wp_", "form[action*=wp-login]" }

\* pages with every combination of the fourteen detection signals
DetectAssets ==
    { [tag |-> "link",   url |-> <<"/", "wp-content", "/", "themes", "/", "twentytwenty",
                                   "/", "style.css">>],
      [tag |-> "link",   url |-> <<"/", "wp-includes", "/", "css", "/", "dashicons.css">>],
      [tag |-> "link",   url |-> <<"/", "wp-admin", "/", "css", "/", "login.css">>] }

\* the elements of a set of assets, in one fixed document order
RECURSIVE AsList(_)
AsList(S) ==
    IF S = {} THEN <<>>
    ELSE LET a == CHOOSE x \in S : TRUE IN <<a>> \o AsList(S \ {a})

DetectDocs ==
    { [EmptyDoc EXCEPT !.generator = g, !.assets = AsList(A), !.marks = m] :
        g \in {Undefined, <<"WordPress", " ", "5", ".", "9">>},
        A \in SUBSET DetectAssets,
        m \in SUBSET DetectionMarks }

\* pages with every generator and asset list, and some of the other signals
VersionDocs ==
    { [EmptyDoc EXCEPT !.generator = g, !.assets = a, !.marks = m] :
        g \in Generators,
        a \in AssetLists,
        m \in SUBSET {"#wpadminbar", "link[rel=pingback]", "link[rel=https://api.w.org/]"} }

SecurityDocs == DetectDocs \cup VersionDocs

InitSecurity ==
    /\ engine = "backend"
    /\ pc = "security"
    /\ doc \in SecurityDocs
    /\ net = NoProbes
    /\ clock = 0
    /\ security = Pending
    /\ gdpr = Pending
    /\ accessibility = Pending
    /\ categoryScores = Pending
    /\ overallScore = 0
    /\ recommendations = <<>>
    /\ reports = <<>>
    /\ FetchedOk

NextSecurity == BackendSecurityAnalyze

SpecSecurity == InitSecurity /\ [][NextSecurity]_vars

(***************************************************************************)
(* AccessibilityAnalyzer (backend).                                        *)
(***************************************************************************)
\* s.trim()
RECURSIVE TrimLeft(_)
TrimLeft(s) == IF s # <<>> /\ Head(s) = " " THEN TrimLeft(Tail(s)) ELSE s

RECURSIVE TrimRight(_)
TrimRight(s) ==
    IF s # <<>> /\ s[Len(s)] = " " THEN TrimRight(SubSeq(s, 1, Len(s) - 1)) ELSE s

Trim(s) == TrimRight(TrimLeft(s))

\* the words the /i patterns know, in lower case
LowerWord(w) ==
    CASE w \in {"Image", "IMAGE"}     -> "image"
      [] w \in {"Img", "IMG"}         -> "img"
      [] w \in {"Picture", "PICTURE"} -> "picture"
      [] w \in {"Photo", "PHOTO"}     -> "photo"
      [] w \in {"Untitled"}           -> "untitled"
      [] w \in {"Dsc", "DSC"}         -> "dsc"
      [] w \in {"Click", "CLICK"}     -> "click"
      [] w \in {"Here", "HERE"}       -> "here"
      [] w \in {"Read", "READ"}       -> "read"
      [] w \in {"More", "MORE"}       -> "more"
      [] w \in {"Accept"}             -> "accept"
      [] w \in {"jQuery"}             -> "jquery"
      [] w \in {"Privacy"}            -> "privacy"
      [] w \in {"Policy"}             -> "policy"
      [] w \in {"Datenschutz"}        -> "datenschutz"
      [] w \in {"GDPR"}               -> "gdpr"
      [] w \in {"We"}                 -> "we"
      [] w \in {"Hello"}              -> "hello"
      [] w \in {"G-"}                 -> "g-"
      [] w \in {"GTM-"}               -> "gtm-"
      [] w \in {"ABC123"}             -> "abc123"
      [] OTHER                        -> w

LowerCase(s) == [i \in 1 .. Len(s) |-> LowerWord(s[i])]

\* /^<prefix>_?\d+$/ on a lower-cased string
MatchesCameraName(a, prefix) ==
    /\ Len(a) >= 2
    /\ a[1] = prefix
    /\ LET start == IF a[2] = "_" THEN 3 ELSE 2
       IN  start <= Len(a) /\ RunLen(a, start, Digits) = Len(a) - start + 1

\* AccessibilityAnalyzer.isMeaninglessAlt
isMeaninglessAlt(alt) ==
    LET a == LowerCase(Trim(alt))
    IN  \/ a \in { <<"image">>, <<"img">>, <<"picture">>, <<"photo">>, <<"untitled">> }
        \/ MatchesCameraName(a, "dsc")
        \/ MatchesCameraName(a, "img")
        \/ Len(Trim(alt)) >= 1 /\ RunLen(Trim(alt), 1, Digits) = Len(Trim(alt))
        \/ a \in { <<"click", " ", "here">>, <<"read", " ", "more">> }

\* the body of the $('img').each callback: whether the image is counted
ImageCounted(img) ==
    IF img.role = <<"presentation">> \/ img.alt = <<>> THEN FALSE
    ELSE ~Truthy(img.alt) \/ Trim(img.alt) = <<>> \/ isMeaninglessAlt(img.alt)

\* AccessibilityAnalyzer.checkMissingAltText
checkMissingAltText(d) == Len(SelectSeq(d.images, ImageCounted))

\* a slip: any change of level is flagged, not only a rise by more than one
RECURSIVE JumpIssues_AnyChange(_, _)
JumpIssues_AnyChange(headings, i) ==
    IF i > Len(headings) THEN <<>>
    ELSE (IF headings[i].level # headings[i - 1].level
          THEN << "Heading level jumps from H" \o ToString(headings[i - 1].level)
                    \o " to H" \o ToString(headings[i].level) >>
          ELSE <<>>)
         \o JumpIssues_AnyChange(headings, i + 1)

\* the jump issues of headings i..n, in document order
RECURSIVE JumpIssues(_, _)
JumpIssues(headings, i) ==
    IF i > Len(headings) THEN <<>>
    ELSE (IF headings[i].level > headings[i - 1].level + 1
          THEN << "Heading level jumps from H" \o ToString(headings[i - 1].level)
                    \o " to H" \o ToString(headings[i].level) >>
          ELSE <<>>)
         \o JumpIssues(headings, i + 1)

RECURSIVE EmptyIssues(_)
EmptyIssues(headings) ==
    IF headings = <<>> THEN <<>>
    ELSE (IF ~Truthy(Head(headings).text) \/ Len(Head(headings).text) = 0
          THEN << "Empty H" \o ToString(Head(headings).level) \o " heading found" >>
          ELSE <<>>)
         \o EmptyIssues(Tail(headings))

\* AccessibilityAnalyzer.checkHeadingHierarchy
checkHeadingHierarchy(d) ==
    LET headings == [i \in 1 .. Len(d.headings) |->
                        [level |-> d.headings[i].level, text |-> Trim(d.headings[i].text)]]
        h1Count  == Len(SelectSeq(headings, LAMBDA h : h.level = 1))
    IN  IF Len(headings) = 0 THEN << "No headings found on the page" >>
        ELSE (IF h1Count = 0 THEN << "No H1 heading found" >>
              ELSE IF h1Count > 1
                   THEN << "Multiple H1 headings found (" \o ToString(h1Count) \o ")" >>
                   ELSE <<>>)
             \o JumpIssues(headings, 2)
             \o EmptyIssues(headings)

\* a non-empty attribute after trim()
NonBlank(s) == Truthy(s) /\ Trim(s) # <<>>

\* the body of the $('input, textarea, select').each callback
InputCounted(d, el) ==
    IF el.type \in { <<"hidden">>, <<"submit">>, <<"button">> } THEN FALSE
    ELSE LET hasLabel          == Truthy(el.id) /\ el.id \in d.labelsFor
             hasAriaLabel      == NonBlank(el.ariaLabel)
             hasAriaLabelledby == NonBlank(el.ariaLabelledby)
         IN  ~hasLabel /\ ~hasAriaLabel /\ ~hasAriaLabelledby

\* the body of the $('button').each callback
ButtonCounted(el) ==
    ~Truthy(Trim(el.text)) /\ ~Truthy(el.ariaLabel) /\ ~Truthy(el.ariaLabelledby)

\* the body of the $('a').each callback
LinkCounted(el) ==
    ~Truthy(Trim(el.text)) /\ ~Truthy(el.ariaLabel) /\ ~Truthy(el.ariaLabelledby)
        /\ ~Truthy(el.title)

\* AccessibilityAnalyzer.checkMissingAriaLabels
checkMissingAriaLabels(d) ==
    Len(SelectSeq(d.controls, LAMBDA el : el.tag \in {"input", "textarea", "select"} /\ InputCounted(d, el)))
    + Len(SelectSeq(d.controls, LAMBDA el : el.tag = "button" /\ ButtonCounted(el)))
    + Len(SelectSeq(d.controls, LAMBDA el : el.tag = "a" /\ LinkCounted(el)))

\* AccessibilityAnalyzer.calculateAccessibilityScore
calculateAccessibilityScore(missingAltImages, headingIssues, missingAriaLabels) ==
    Clamp(100 - Min(missingAltImages * 5, 40)
              - Min(Len(headingIssues) * 10, 30)
              - Min(missingAriaLabels * 3, 30))

\* AccessibilityAnalyzer.analyze
AccessibilityAnalyzer_analyze(d) ==
    LET missingAltImages  == checkMissingAltText(d)
        headingIssues     == checkHeadingHierarchy(d)
        missingAriaLabels == checkMissingAriaLabels(d)
    IN  [missingAltImages  |-> missingAltImages,
         headingIssues     |-> headingIssues,
         missingAriaLabels |-> missingAriaLabels,
         score |-> calculateAccessibilityScore(missingAltImages, headingIssues, missingAriaLabels)]

(***************************************************************************)
(* analyzeAccessibilityWorker (worker): the same page read as HTML text.   *)
(* An element's tag text holds `name=` for each attribute the element has. *)
(***************************************************************************)
\* img.includes('alt=')
TagHasAltEq(img) == img.alt # Undefined

\* /alt=["']?\s*["']?/i.test(img): the quote, the blanks and the closing quote
\* are all optional, so the pattern matches wherever "alt=" stands
AltPatternMatches(img) == TagHasAltEq(img)

WorkerImageCounted(img) == ~TagHasAltEq(img) \/ AltPatternMatches(img)

RECURSIVE WorkerHeadingIssues(_, _)
WorkerHeadingIssues(headings, previousLevel) ==
    IF headings = <<>> THEN <<>>
    ELSE LET currentLevel == Head(headings).level
         IN  (IF previousLevel > 0 /\ currentLevel > previousLevel + 1
              THEN << "Heading level " \o ToString(currentLevel) \o " follows H"
                        \o ToString(previousLevel) \o " (skipped levels)" >>
              ELSE <<>>)
             \o WorkerHeadingIssues(Tail(headings), currentLevel)

\* the filter over interactiveElements: no 'aria-label', no 'aria-labelledby'
\* and no 'title=' in the tag text
WorkerControlCounted(el) ==
    /\ el.ariaLabel = Undefined
    /\ el.ariaLabelledby = Undefined
    /\ el.title = Undefined

\* analyzeAccessibilityWorker
analyzeAccessibilityWorker(d) ==
    LET missingAltImages  == Len(SelectSeq(d.images, WorkerImageCounted))
        headingIssues     == WorkerHeadingIssues(d.headings, 0)
        missingAriaLabels ==
            Len(SelectSeq(d.controls, LAMBDA el : el.tag \in {"button", "input", "select", "textarea"}
                                              /\ WorkerControlCounted(el)))
    IN  [missingAltImages  |-> missingAltImages,
         headingIssues     |-> headingIssues,
         missingAriaLabels |-> missingAriaLabels,
         score |-> Clamp(100
                     - (IF missingAltImages > 0 THEN Min(30, missingAltImages * 3) ELSE 0)
                     - (IF Len(headingIssues) > 0 THEN Min(20, Len(headingIssues) * 5) ELSE 0)
                     - (IF missingAriaLabels > 0 THEN Min(25, missingAriaLabels * 2) ELSE 0))]

\* WordPressAnalyzer.analyze: const accessibility = await this.accessibilityAnalyzer.analyze($)
BackendAccessibilityAnalyze ==
    /\ engine = "backend"
    /\ pc = "accessibility"
    /\ accessibility' = AccessibilityAnalyzer_analyze(doc)
    /\ pc' = "score"
    /\ UNCHANGED <<engine, doc, net, clock, gdpr, recommendations, reports, security, categoryScores, overallScore,
                   request, page, sent, response, grades, db, logged, admin, panel>>

\* analyzeWebsite: const accessibility = await analyzeAccessibilityWorker(html)
WorkerAccessibilityAnalyze ==
    /\ engine = "worker"
    /\ pc = "accessibility"
    /\ accessibility' = analyzeAccessibilityWorker(doc)
    /\ pc' = "score"
    /\ UNCHANGED <<engine, doc, net, clock, gdpr, recommendations, reports, security, categoryScores, overallScore,
                   request, page, sent, response, grades, db, logged, admin, panel>>

(***************************************************************************)
(* The pages the accessibility analyzers are run on.                       *)
(***************************************************************************)
Img(alt, role) == [alt |-> alt, role |-> role]

ImageKinds ==
    { Img(Undefined, Undefined),
      Img(<<>>, Undefined),
      Img(<<" ">>, Undefined),
      Img(<<"image">>, Undefined),
      Img(<<" ", "Image", " ">>, Undefined),
      Img(<<"IMG", "_", "0", "4", "2">>, Undefined),
      Img(<<"4", "2">>, Undefined),
      Img(<<"click", " ", "here">>, Undefined),
      Img(<<"photo", " ", "of", " ", "a", " ", "lake">>, Undefined),
      Img(<<"Sunset", " ", "over", " ", "the", " ", "lake">>, Undefined),
      Img(Undefined, <<"presentation">>),
      Img(<<"image">>, <<"presentation">>) }

\* at most MaxImages images on a page
MaxImages == 3

ImageDocs ==
    { [EmptyDoc EXCEPT !.images = imgs] :
        imgs \in UNION { [1 .. n -> ImageKinds] : n \in 0 .. MaxImages } }

HeadingKinds == [level : 1 .. 6, text : { <<" ">>, <<"Intro">> }]

\* at most MaxHeadings headings on a page
MaxHeadings == 3

HeadingDocs ==
    { [EmptyDoc EXCEPT !.headings = hs] :
        hs \in UNION { [1 .. n -> HeadingKinds] : n \in 0 .. MaxHeadings } }

Control(tag, type, id, ariaLabel, ariaLabelledby, title, text) ==
    [tag |-> tag, type |-> type, id |-> id, ariaLabel |-> ariaLabel,
     ariaLabelledby |-> ariaLabelledby, title |-> title, text |-> text]

ControlKinds ==
    { Control("input", Undefined, Undefined, Undefined, Undefined, Undefined, <<>>),
      Control("input", <<"text">>, <<"q">>, Undefined, Undefined, Undefined, <<>>),
      Control("input", <<"hidden">>, Undefined, Undefined, Undefined, Undefined, <<>>),
      Control("input", <<"submit">>, Undefined, Undefined, Undefined, Undefined, <<>>),
      Control("input", <<"button">>, Undefined, Undefined, Undefined, Undefined, <<>>),
      Control("input", <<"text">>, Undefined, <<"Search">>, Undefined, Undefined, <<>>),
      Control("input", <<"text">>, Undefined, <<" ">>, Undefined, Undefined, <<>>),
      Control("textarea", Undefined, Undefined, Undefined, <<"hint">>, Undefined, <<>>),
      Control("select", Undefined, Undefined, Undefined, Undefined, <<"Country">>, <<>>),
      Control("button", Undefined, Undefined, Undefined, Undefined, Undefined, <<"Go">>),
      Control("button", Undefined, Undefined, Undefined, Undefined, Undefined, <<" ">>),
      Control("button", Undefined, Undefined, <<"Close">>, Undefined, Undefined, <<>>),
      Control("button", Undefined, Undefined, <<" ">>, Undefined, Undefined, <<>>),
      Control("a", Undefined, Undefined, Undefined, Undefined, Undefined, <<"Home">>),
      Control("a", Undefined, Undefined, Undefined, Undefined, Undefined, <<>>),
      Control("a", Undefined, Undefined, Undefined, Undefined, <<"Home">>, <<>>) }

\* at most MaxControls form controls, buttons and links on a page
MaxControls == 2

\* pages of controls, without and with a <label for="q">
ControlDocs ==
    { [EmptyDoc EXCEPT !.controls = cs, !.labelsFor = ls] :
        cs \in UNION { [1 .. n -> ControlKinds] : n \in 0 .. MaxControls },
        ls \in { {}, { <<"q">> } } }

AccessibilityDocs == ImageDocs \cup HeadingDocs \cup ControlDocs

InitAccessibility ==
    /\ engine \in Engines
    /\ pc = "accessibility"
    /\ doc \in AccessibilityDocs
    /\ net = NoProbes
    /\ clock = 0
    /\ security = Pending
    /\ gdpr = Pending
    /\ accessibility = Pending
    /\ categoryScores = Pending
    /\ overallScore = 0
    /\ recommendations = <<>>
    /\ reports = <<>>
    /\ FetchedOk

NextAccessibility == BackendAccessibilityAnalyze \/ WorkerAccessibilityAnalyze

SpecAccessibility == InitAccessibility /\ [][NextAccessibility]_vars

(***************************************************************************)
(* Patterns.  A pattern is a sequence of token sets: a literal is a        *)
(* singleton, a character class with + the set of the runs it accepts.     *)
(***************************************************************************)
Lit(toks) == [k \in 1 .. Len(toks) |-> {toks[k]}]

MatchAt(s, i, pat) ==
    /\ i + Len(pat) - 1 <= Len(s)
    /\ \A k \in 1 .. Len(pat) : s[i + k - 1] \in pat[k]

\* pattern.test(s), s.includes(literal), [attr*="literal"]
Test(s, pat) == \E i \in 1 .. Len(s) : MatchAt(s, i, pat)

\* /a.*b/.test(s): a, then any characters but a line break, then b
TestGap(s, a, b) ==
    \E i \in 1 .. Len(s) :
        /\ MatchAt(s, i, a)
        /\ \E j \in i + Len(a) .. Len(s) :
              /\ MatchAt(s, j, b)
              /\ \A k \in i + Len(a) .. j - 1 : s[k] # "\n"

\* the runs \d+ and [A-Z0-9]+ accept
DigitRuns == {"12345", "1"}
UpperRuns == DigitRuns \cup {"ABC123"}

(***************************************************************************)
(* Serialisation of the elements: $.html() in the backend, the fetched     *)
(* html in the worker.                                                     *)
(***************************************************************************)
Attr(name, value) ==
    IF value = Undefined THEN <<>> ELSE <<" ", name, "=", "\"">> \o value \o <<"\"">>

OuterHtml(el) ==
    IF el.tag = "#text" THEN el.text
    ELSE <<"<", el.tag>> \o Attr("id", el.id) \o Attr("class", el.class)
            \o Attr("href", el.href) \o Attr("src", el.src) \o <<">">>
            \o el.text \o <<"</", el.tag, ">">>

\* the concatenation of a list of strings
RECURSIVE Flatten(_)
Flatten(ss) == IF ss = <<>> THEN <<>> ELSE Head(ss) \o Flatten(Tail(ss))

\* an asset is a <script src>, a <link href> or an <img src>
AssetHtml(a) ==
    <<"<", a.tag>> \o Attr(IF a.tag = "link" THEN "href" ELSE "src", a.url) \o <<">">>
        \o (IF a.tag = "script" THEN <<"</", "script", ">">> ELSE <<>>)

\* the page as text: the assets and the elements (the other parts of the
\* document hold nothing the patterns run on the text look for)
Html(d) ==
    Flatten([i \in 1 .. Len(d.assets) |-> AssetHtml(d.assets[i])])
        \o Flatten([i \in 1 .. Len(d.elements) |-> OuterHtml(d.elements[i])])

\* $(el).text() of the root element: the text of every node of the page
PageText(d) == Flatten([i \in 1 .. Len(d.elements) |-> d.elements[i].text])

(***************************************************************************)
(* GDPRAnalyzer (backend).                                                 *)
(***************************************************************************)
trackerPatterns ==
    << [name |-> "Google Analytics", type |-> "analytics",
        patterns |-> { Lit(<<"gtag", "(">>), Lit(<<"ga", "(">>),
                       Lit(<<"google", "-", "analytics", ".", "com">>),
                       Lit(<<"google", "tagmanager", ".", "com">>),
                       <<{"UA-"}, DigitRuns, {"-"}, DigitRuns>>,
                       <<{"G-"}, UpperRuns>> }],
       [name |-> "Meta Pixel", type |-> "advertising",
        patterns |-> { Lit(<<"fbq", "(">>), Lit(<<"facebook", ".", "net">>),
                       Lit(<<"connect", ".", "facebook", ".", "net">>),
                       Lit(<<"_fbp">>), Lit(<<"fbevents", ".", "js">>) }],
       [name |-> "Google Tag Manager", type |-> "analytics",
        patterns |-> { Lit(<<"google", "tagmanager", ".", "com">>), <<{"GTM-"}, UpperRuns>> }],
       [name |-> "LinkedIn Insight", type |-> "advertising",
        patterns |-> { Lit(<<"snap", ".", "licdn", ".", "com">>),
                       Lit(<<"_linkedin_partner_id">>) }],
       [name |-> "Twitter Pixel", type |-> "advertising",
        patterns |-> { Lit(<<"static", ".", "ads-twitter", ".", "com">>), Lit(<<"twq", "(">>) }],
       [name |-> "Hotjar", type |-> "analytics",
        patterns |-> { Lit(<<"static", ".", "hotjar", ".", "com">>), Lit(<<"hj", "(">>) }] >>

\* GDPRAnalyzer.detectCookieBanner.  *:contains(x) matches the root element
\* whenever it matches any element, so the text indicators read PageText.
detectCookieBanner(d) ==
    LET els     == d.elements
        any(P(_)) == \E i \in 1 .. Len(els) : P(els[i])
        names   == { <<"cookie", "-", "banner">>, <<"cookie", "-", "notice">>,
                     <<"cookie", "-", "consent">> }
        text    == PageText(d)
        lower   == LowerCase(text)
    IN  \/ any(LAMBDA el : el.id \in names)
        \/ any(LAMBDA el : el.class \in names)
        \/ any(LAMBDA el : Test(el.id, Lit(<<"cookie">>)) \/ Test(el.class, Lit(<<"cookie">>)))
        \/ /\ Test(text, Lit(<<"cookie">>))
           /\ \/ Test(lower, Lit(<<"accept">>))
              \/ Test(lower, Lit(<<"consent">>))
              \/ Test(lower, Lit(<<"privacy">>))
        \/ Test(text, Lit(<<"GDPR">>)) \/ Test(text, Lit(<<"privacy", " ", "policy">>))
        \/ any(LAMBDA el : /\ el.tag = "script"
                           /\ \/ Test(el.src, Lit(<<"cookie", "bot">>))
                              \/ Test(el.src, Lit(<<"onetrust">>))
                              \/ Test(el.src, Lit(<<"cookie", "pro">>)))

\* GDPRAnalyzer.detectPrivacyPolicy (the two footer indicators select a subset
\* of what a[href*="privacy"] and a:contains("Privacy") select)
detectPrivacyPolicy(d) ==
    \E i \in 1 .. Len(d.elements) :
        LET el == d.elements[i]
        IN  /\ el.tag = "a"
            /\ \/ Test(el.href, Lit(<<"privacy">>))
               \/ Test(el.href, Lit(<<"datenschutz">>))
               \/ Test(el.href, Lit(<<"politique-confidentialite">>))
               \/ Test(el.text, Lit(<<"Privacy", " ", "Policy">>))
               \/ Test(el.text, Lit(<<"Privacy">>))
               \/ Test(el.text, Lit(<<"Datenschutz">>))
               \/ Test(el.text, Lit(<<"Politique", " ", "de", " ", "confidentialite">>))

\* a slip: only the trackers that were found are pushed
detectTrackers_OnlyDetected(d) ==
    LET pageContent == Html(d)
        all == [k \in 1 .. Len(trackerPatterns) |->
                   [name     |-> trackerPatterns[k].name,
                    type     |-> trackerPatterns[k].type,
                    detected |-> \E pattern \in trackerPatterns[k].patterns :
                                     Test(pageContent, pattern)]]
    IN  SelectSeq(all, LAMBDA t : t.detected)

\* GDPRAnalyzer.detectTrackers
detectTrackers(d) ==
    LET pageContent == Html(d)
    IN  [k \in 1 .. Len(trackerPatterns) |->
            [name     |-> trackerPatterns[k].name,
             type     |-> trackerPatterns[k].type,
             detected |-> \E pattern \in trackerPatterns[k].patterns :
                              Test(pageContent, pattern)]]

\* a slip: the tracker penalty is taken whether or not there is a banner
calculateGDPRScore_BannerIgnored(hasCookieBanner, hasPrivacyPolicy, trackers) ==
    Clamp(100 - (IF ~hasCookieBanner THEN 40 ELSE 0)
              - (IF ~hasPrivacyPolicy THEN 40 ELSE 0)
              - (IF Len(SelectSeq(trackers, LAMBDA t : t.detected)) > 0 THEN 20 ELSE 0))

\* GDPRAnalyzer.calculateGDPRScore
calculateGDPRScore(hasCookieBanner, hasPrivacyPolicy, trackers) ==
    LET detectedTrackers == SelectSeq(trackers, LAMBDA t : t.detected)
    IN  Clamp(100 - (IF ~hasCookieBanner THEN 40 ELSE 0)
                  - (IF ~hasPrivacyPolicy THEN 40 ELSE 0)
                  - (IF Len(detectedTrackers) > 0 /\ ~hasCookieBanner THEN 20 ELSE 0))

\* GDPRAnalyzer.analyze
GDPRAnalyzer_analyze(d) ==
    LET hasCookieBanner  == detectCookieBanner(d)
        hasPrivacyPolicy == detectPrivacyPolicy(d)
        trackers         == detectTrackers(d)
    IN  [hasCookieBanner  |-> hasCookieBanner,
         hasPrivacyPolicy |-> hasPrivacyPolicy,
         trackers         |-> trackers,
         score            |-> calculateGDPRScore(hasCookieBanner, hasPrivacyPolicy, trackers)]

(***************************************************************************)
(* analyzeGDPRWorker (worker).  The patterns carry the i flag: they are    *)
(* matched in lower case against the lower-cased html.                     *)
(***************************************************************************)
WorkerTrackers(html) ==
    << [name |-> "Google Analytics", type |-> "analytics",
        detected |-> \/ Test(html, Lit(<<"google", "-", "analytics">>))
                     \/ Test(html, Lit(<<"gtag">>))
                     \/ Test(html, Lit(<<"ga", "(">>))],
       [name |-> "Facebook Pixel", type |-> "advertising",
        detected |-> \/ TestGap(html, Lit(<<"facebook">>), Lit(<<"pixel">>))
                     \/ Test(html, Lit(<<"fbq", "(">>))],
       [name |-> "Google Tag Manager", type |-> "analytics",
        detected |-> Test(html, Lit(<<"google", "tagmanager">>))],
       [name |-> "Google Ads", type |-> "advertising",
        detected |-> \/ Test(html, Lit(<<"google", "ads", "ervices">>))
                     \/ TestGap(html, Lit(<<"google">>), Lit(<<"ads">>))],
       [name |-> "Twitter", type |-> "social",
        detected |-> \/ TestGap(html, Lit(<<"twitter">>), Lit(<<"widget">>))
                     \/ Test(html, Lit(<<"platform", ".", "twitter">>))],
       [name |-> "LinkedIn", type |-> "social",
        detected |-> \/ TestGap(html, Lit(<<"linkedin">>), Lit(<<"insight">>))
                     \/ Test(html, Lit(<<"platform", ".", "linkedin">>))] >>

\* analyzeGDPRWorker: let score = 100 ... Math.max(0, Math.min(100, score))
WorkerGDPRScore(hasCookieBanner, hasPrivacyPolicy, detectedTrackers) ==
    Max(0, Min(100, 100 - (IF ~hasCookieBanner THEN 30 ELSE 0)
                        - (IF ~hasPrivacyPolicy THEN 30 ELSE 0)
                        - (IF detectedTrackers > 0 /\ ~hasCookieBanner
                           THEN detectedTrackers * 5 ELSE 0)))

analyzeGDPRWorker(d) ==
    LET html == LowerCase(Html(d))
        hasCookieBanner ==
            \/ TestGap(html, Lit(<<"cookie">>), Lit(<<"consent">>))
            \/ TestGap(html, Lit(<<"accept">>), Lit(<<"cookie">>))
            \/ TestGap(html, Lit(<<"cookie">>), Lit(<<"policy">>))
            \/ TestGap(html, Lit(<<"gdpr">>), Lit(<<"consent">>))
            \/ TestGap(html, Lit(<<"privacy">>), Lit(<<"consent">>))
        hasPrivacyPolicy ==
            \/ TestGap(html, Lit(<<"privacy">>), Lit(<<"policy">>))
            \/ Test(html, Lit(<<"datenschutz">>))
            \/ TestGap(html, Lit(<<"privacy">>), Lit(<<"statement">>))
        trackers == WorkerTrackers(html)
        detectedTrackers == Len(SelectSeq(trackers, LAMBDA t : t.detected))
    IN  [hasCookieBanner  |-> hasCookieBanner,
         hasPrivacyPolicy |-> hasPrivacyPolicy,
         trackers         |-> trackers,
         score            |-> WorkerGDPRScore(hasCookieBanner, hasPrivacyPolicy, detectedTrackers)]

\* WordPressAnalyzer.analyze: const gdpr = await this.gdprAnalyzer.analyze($, url)
BackendGDPRAnalyze ==
    /\ engine = "backend"
    /\ pc = "gdpr"
    /\ gdpr' = GDPRAnalyzer_analyze(doc)
    /\ pc' = "accessibility"
    /\ UNCHANGED <<engine, doc, net, clock, security, accessibility, categoryScores,
                   overallScore, recommendations, reports,
                   request, page, sent, response, grades, db, logged, admin, panel>>

\* analyzeWebsite: const gdpr = await analyzeGDPRWorker(html, url)
WorkerGDPRAnalyze ==
    /\ engine = "worker"
    /\ pc = "gdpr"
    /\ gdpr' = analyzeGDPRWorker(doc)
    /\ pc' = "accessibility"
    /\ UNCHANGED <<engine, doc, net, clock, security, accessibility, categoryScores,
                   overallScore, recommendations, reports,
                   request, page, sent, response, grades, db, logged, admin, panel>>

(***************************************************************************)
(* analyzeSecurityWorker (worker).  The worker reads the fetched html:     *)
(* Html(d), the serialisation of the assets and elements of the page.      *)
(***************************************************************************)
\* analyzeSSLCertificate (new URL(url) cannot throw here: the page was
\* fetched from the url)
analyzeSSLCertificate(n) ==
    IF ~n.https THEN [isValid |-> FALSE, grade |-> Undefined,
                      warnings |-> << "Site not using HTTPS" >>]
    ELSE IF n.sslHead = "throws"
         THEN [isValid |-> FALSE, grade |-> Undefined,
               warnings |-> << "SSL certificate validation failed" >>]
         ELSE [isValid  |-> n.sslHead = "ok",
               grade    |-> IF n.sslHead = "ok" THEN <<"A">> ELSE <<"F">>,
               warnings |-> IF n.sslHead = "ok" THEN <<>> ELSE << "SSL connection failed" >>]

HeaderNames ==
    { "content-security-policy", "strict-transport-security", "x-frame-options",
      "x-content-type-options", "referrer-policy", "permissions-policy", "feature-policy" }

\* analyzeSecurityHeaders.  Object.values(securityHeaders).filter(Boolean)
\* drops the score field, which is 0, so headerCount is one less than the
\* number of flags set; (headerCount / 6) * 30 is within 1e-14 of
\* 5 * headerCount, which Math.round returns.
analyzeSecurityHeaders(n) ==
    LET has(h) == n.headersHead # "throws" /\ h \in n.headers
        flags  == [contentSecurityPolicy   |-> has("content-security-policy"),
                   strictTransportSecurity |-> has("strict-transport-security"),
                   xFrameOptions           |-> has("x-frame-options"),
                   xContentTypeOptions     |-> has("x-content-type-options"),
                   referrerPolicy          |-> has("referrer-policy"),
                   permissionsPolicy       |-> has("permissions-policy") \/ has("feature-policy")]
        headerCount == Cardinality({ f \in DOMAIN flags : flags[f] }) - 1
    IN  [flags |-> flags,
         score |-> IF n.headersHead = "throws" THEN 0 ELSE 5 * headerCount]

\* analyzeConsoleWarnings
analyzeConsoleWarnings(html) ==
    LET lower == LowerCase(html)
        inlineScript(i) ==
            /\ i + 1 <= Len(lower) /\ lower[i] = "<" /\ lower[i + 1] = "script"
            /\ \E e \in i + 2 .. Len(lower) :
                  /\ lower[e] = ">"
                  /\ \A k \in i + 2 .. e - 1 : lower[k] \notin {">", "src"}
        evalCall(i) ==
            /\ lower[i] = "eval"
            /\ i + 1 + RunLen(lower, i + 1, {" ", "\n"}) <= Len(lower)
            /\ lower[i + 1 + RunLen(lower, i + 1, {" ", "\n"})] = "("
    IN  (IF Test(html, Lit(<<"http://">>)) /\ Test(html, Lit(<<"https://">>))
         THEN << [type |-> "mixed-content", severity |-> "medium"] >> ELSE <<>>)
        \o (IF Test(lower, Lit(<<"document", ".", "write">>))
            THEN << [type |-> "deprecated", severity |-> "low"] >> ELSE <<>>)
        \o (IF (\E i \in 1 .. Len(lower) : inlineScript(i)) /\ ~Test(html, Lit(<<"nonce=">>))
            THEN << [type |-> "security", severity |-> "medium"] >> ELSE <<>>)
        \o (IF \E i \in 1 .. Len(lower) : evalCall(i)
            THEN << [type |-> "security", severity |-> "high"] >> ELSE <<>>)

\* a slip: the status depends on when the check ran
analyzeReputation_Expiring(times) ==
    [k \in 1 .. 3 |->
        [service     |-> <<"Google Safe Browsing", "VirusTotal", "Malware Domain List">>[k],
         status      |-> IF times[k] = 0 THEN "clean" ELSE "warning",
         lastChecked |-> times[k]]]

\* analyzeReputation: every check is 'clean' and stamped with the time of
\* its own new Date()
analyzeReputation(times) ==
    << [service |-> "Google Safe Browsing", status |-> "clean", lastChecked |-> times[1]],
       [service |-> "VirusTotal",           status |-> "clean", lastChecked |-> times[2]],
       [service |-> "Malware Domain List",  status |-> "clean", lastChecked |-> times[3]] >>

\* analyzeGeneralVulnerabilities
analyzeGeneralVulnerabilities(html) ==
    LET lower == LowerCase(html)
        hits  == { i \in 1 .. Len(lower) :
                     /\ lower[i] = "jquery"
                     /\ i + 1 <= Len(lower) /\ lower[i + 1] \in {"/", "-"}
                     /\ RunLen(lower, i + 2, VersionChars) >= 1 }
        first == CHOOSE i \in hits : \A k \in hits : i <= k
        version == SubSeq(html, first + 2, first + 1 + RunLen(lower, first + 2, VersionChars))
    IN  (IF Test(html, Lit(<<"jQuery">>)) /\ hits # {} /\ NumberLess(parseFloat(version), 35, 10)
         THEN << [component |-> <<"jQuery">>, version |-> version, severity |-> "medium"] >>
         ELSE <<>>)
        \o (IF Test(html, Lit(<<"/admin">>)) \/ Test(html, Lit(<<"/admin", "istrator">>))
            THEN << [component |-> <<"Admin Interface">>, version |-> Undefined,
                     severity |-> "low"] >>
            ELSE <<>>)

\* analyzeSecurityWorker
analyzeSecurityWorker(d, n, times) ==
    LET sslCertificate   == analyzeSSLCertificate(n)
        securityHeaders  == analyzeSecurityHeaders(n)
        consoleWarnings  == analyzeConsoleWarnings(Html(d))
        reputationChecks == analyzeReputation(times)
        vulnerabilities  == analyzeGeneralVulnerabilities(Html(d))
        allClean == \A i \in 1 .. Len(reputationChecks) : reputationChecks[i].status = "clean"
    IN  [sslCertificate   |-> sslCertificate,
         securityHeaders  |-> securityHeaders,
         consoleWarnings  |-> consoleWarnings,
         reputationChecks |-> reputationChecks,
         vulnerabilities  |-> vulnerabilities,
         score |-> Max(0, Min(100, (IF sslCertificate.isValid THEN 25 ELSE 0)
                                   + securityHeaders.score
                                   + Max(0, 25 - Len(consoleWarnings) * 5)
                                   + (IF allClean THEN 20 ELSE 0)
                                   - Len(vulnerabilities) * 10))]

\* the wall clock never runs backwards and is followed up to MaxClock
MaxClock == 2

\* a HEAD probe that is awaited never answers: analyzeSSLCertificate's (sent
\* to https urls only) or analyzeSecurityHeaders'
ProbeHangs(n) == (n.https /\ n.sslHead = "hangs") \/ n.headersHead = "hangs"

\* analyzeWebsite: const security = await analyzeSecurityWorker(html, url);
\* its three new Date() read the clock one after the other
WorkerSecurityAnalyze ==
    /\ engine = "worker"
    /\ pc = "security"
    /\ ~ProbeHangs(net)
    /\ \E t1, t2, t3 \in clock .. MaxClock :
          /\ t1 <= t2 /\ t2 <= t3
          /\ security' = analyzeSecurityWorker(doc, net, <<t1, t2, t3>>)
          /\ clock' = t3
    /\ sent' = sent \o (IF net.https THEN <<"HEAD">> ELSE <<>>) \o <<"HEAD">>
    /\ pc' = "gdpr"
    /\ UNCHANGED <<engine, doc, net, gdpr, accessibility, categoryScores, overallScore,
                   recommendations, reports, request, page, response, grades, db, logged, admin, panel>>

(***************************************************************************)
(* The pages the GDPR analyzers are run on.                                *)
(***************************************************************************)
El(tag, id, class, href, src, text) ==
    [tag |-> tag, id |-> id, class |-> class, href |-> href, src |-> src, text |-> text]

Script(src, text) == El("script", Undefined, Undefined, Undefined, src, text)

ElementCatalog ==
    { El("div", <<"cookie", "-", "banner">>, Undefined, Undefined, Undefined,
         <<"We", " ", "use", " ", "cookie", "s">>),
      El("div", Undefined, <<"notice">>, Undefined, Undefined, <<"Accept", " ", "cookie", "s">>),
      El("p", Undefined, Undefined, Undefined, Undefined, <<"GDPR">>),
      El("p", Undefined, Undefined, Undefined, Undefined, <<"Hello">>),
      El("#text", Undefined, Undefined, Undefined, Undefined, <<"\n">>),
      El("a", Undefined, Undefined, <<"/", "privacy", "-", "policy">>, Undefined,
         <<"Privacy", " ", "Policy">>),
      El("a", Undefined, Undefined, <<"/", "legal">>, Undefined, <<"privacy", " ", "policy">>),
      El("a", Undefined, Undefined, <<"/", "datenschutz">>, Undefined, <<"Datenschutz">>),
      El("a", <<"cookie", "-", "consent">>, Undefined, <<"/", "privacy">>, Undefined,
         <<"Privacy", " ", "Policy">>),
      Script(<<"https://", "consent", ".", "cookie", "bot", ".", "com", "/", "uc", ".", "js">>, <<>>),
      Script(Undefined, <<"gtag", "(", "'", "config", "'", ",", "'", "G-", "ABC123", "'", ")">>),
      Script(<<"https://", "www", ".", "google", "tagmanager", ".", "com", "/", "gtm", ".", "js",
               "?", "id=", "GTM-", "ABC123">>, <<>>),
      Script(Undefined, <<"fbq", "(", "'", "init", "'", ")">>),
      Script(<<"https://", "snap", ".", "licdn", ".", "com", "/", "insight", ".", "min", ".", "js">>,
             <<>>),
      Script(<<"https://", "static", ".", "hotjar", ".", "com", "/", "c", "/", "hotjar", ".", "js">>,
             <<>>),
      Script(<<"https://", "www", ".", "google", "ads", "ervices", ".", "com", "/", "pagead", "/",
               "conversion", ".", "js">>, <<>>),
      Script(<<"https://", "platform", ".", "twitter", ".", "com", "/", "widget", "s", ".", "js">>,
             <<>>) }

\* at most MaxElements elements on a page
MaxElements == 2

GDPRDocs ==
    { [EmptyDoc EXCEPT !.elements = els] :
        els \in UNION { [1 .. n -> ElementCatalog] : n \in 0 .. MaxElements } }

InitGDPR ==
    /\ engine \in Engines
    /\ pc = "gdpr"
    /\ doc \in GDPRDocs
    /\ net = NoProbes
    /\ clock = 0
    /\ security = Pending
    /\ gdpr = Pending
    /\ accessibility = Pending
    /\ categoryScores = Pending
    /\ overallScore = 0
    /\ recommendations = <<>>
    /\ reports = <<>>
    /\ FetchedOk

NextGDPR == BackendGDPRAnalyze \/ WorkerGDPRAnalyze

SpecGDPR == InitGDPR /\ [][NextGDPR]_vars

(***************************************************************************)
(* Score aggregation stage.                                                *)
(***************************************************************************)
BackendCalculateOverall ==
    /\ engine = "backend"
    /\ pc = "overall"
    /\ overallScore' = ScoreCalculator_calculateOverallScore(categoryScores)
    /\ pc' = "recommend"
    /\ UNCHANGED <<engine, doc, net, clock, gdpr, recommendations, reports, security, accessibility, categoryScores,
                   request, page, sent, response, grades, db, logged, admin, panel>>

WorkerCalculateOverall ==
    /\ engine = "worker"
    /\ pc = "overall"
    /\ overallScore' = calculateOverallScore(categoryScores)
    /\ pc' = "recommend"
    /\ UNCHANGED <<engine, doc, net, clock, gdpr, recommendations, reports, security, accessibility, categoryScores,
                   request, page, sent, response, grades, db, logged, admin, panel>>

\* The aggregator on its own: any three category scores in 0..100.
ScoreRange == 0 .. 100

InitScore ==
    /\ engine \in Engines
    /\ pc = "overall"
    /\ categoryScores \in [security : ScoreRange, gdpr : ScoreRange, accessibility : ScoreRange]
    /\ overallScore = 0
    /\ doc = EmptyDoc
    /\ net = NoProbes
    /\ clock = 0
    /\ security = Pending
    /\ gdpr = Pending
    /\ accessibility = Pending
    /\ recommendations = <<>>
    /\ reports = <<>>
    /\ FetchedOk

NextScore == BackendCalculateOverall \/ WorkerCalculateOverall

SpecScore == InitScore /\ [][NextScore]_vars

(***************************************************************************)
(* Recommendations.  A recommendation is [category, severity, title,       *)
(* description]; the action text, a constant of each rule, is left out.    *)
(***************************************************************************)
severityOrder(severity) ==
    CASE severity = "critical" -> 4
      [] severity = "high"     -> 3
      [] severity = "medium"   -> 2
      [] severity = "low"      -> 1

Recommendation(category, severity, title, description) ==
    [category |-> category, severity |-> severity, title |-> title,
     description |-> description]

\* a slip: the comparator's operands swapped, severityOrder[a] - severityOrder[b]
SortBySeverity_Ascending(recs) ==
    Flatten([k \in 1 .. 4 |-> SelectSeq(recs, LAMBDA r : severityOrder(r.severity) = k)])

\* recommendations.sort((a, b) => severityOrder[b.severity] - severityOrder[a.severity]):
\* Array.prototype.sort is stable, so the result is the critical entries in
\* their order, then the high ones, the medium ones and the low ones
SortBySeverity(recs) ==
    Flatten([k \in 1 .. 4 |-> SelectSeq(recs, LAMBDA r : severityOrder(r.severity) = 5 - k)])

CountSeverity(list, severity) == Len(SelectSeq(list, LAMBDA v : v.severity = severity))

\* the rules both generateRecommendations end with: GDPR and accessibility
CommonRules(g, a) ==
    (IF ~g.hasCookieBanner
     THEN << Recommendation("gdpr", "high", "Missing Cookie Banner",
                            "No cookie consent banner detected.") >> ELSE <<>>)
    \o (IF ~g.hasPrivacyPolicy
        THEN << Recommendation("gdpr", "high", "Missing Privacy Policy",
                               "No privacy policy link found.") >> ELSE <<>>)
    \o (IF a.missingAltImages > 0
        THEN << Recommendation("accessibility", "medium", "Images Missing Alt Text",
                               ToString(a.missingAltImages) \o " images are missing alt text.") >>
        ELSE <<>>)
    \o (IF Len(a.headingIssues) > 0
        THEN << Recommendation("accessibility", "medium", "Heading Structure Issues",
                               "Problems found with heading hierarchy.") >> ELSE <<>>)

\* a slip: one entry for each critical vulnerability
CriticalRule_PerVulnerability(s) ==
    LET criticalVulns == SelectSeq(s.vulnerabilities, LAMBDA v : v.severity = "critical")
    IN  [i \in 1 .. Len(criticalVulns) |->
            Recommendation("security", "critical", "Critical Security Vulnerabilities Found",
                           ToString(Len(criticalVulns)) \o " critical vulnerabilities detected.")]

\* if (security.vulnerabilities.length > 0) { criticalVulns = ...; if (criticalVulns.length > 0) push }
CriticalRule(s) ==
    IF Len(s.vulnerabilities) > 0 /\ CountSeverity(s.vulnerabilities, "critical") > 0
    THEN << Recommendation("security", "critical", "Critical Security Vulnerabilities Found",
                           ToString(CountSeverity(s.vulnerabilities, "critical"))
                               \o " critical vulnerabilities detected.") >>
    ELSE <<>>

\* WordPressAnalyzer.generateRecommendations: the entries pushed, in order
BackendRules(s, g, a) ==
    (IF ~s.isWordPress
     THEN << Recommendation("security", "medium", "WordPress Not Detected",
                            "This site does not appear to be running WordPress.") >>
     ELSE IF s.isHardened
          THEN << Recommendation("security", "low", "Excellent Security Hardening",
                                 "WordPress detected through subtle indicators while obvious signs are hidden - this is a security best practice.") >>
          ELSE <<>>)
    \o CriticalRule(s) \o CommonRules(g, a)

WordPressAnalyzer_generateRecommendations(s, g, a) == SortBySeverity(BackendRules(s, g, a))

\* worker generateRecommendations: the entries pushed, in order
WorkerRules(s, g, a) ==
    (IF ~s.sslCertificate.isValid
     THEN << Recommendation("security", "critical", "SSL Certificate Issues",
                            "SSL certificate validation failed or site not using HTTPS.") >>
     ELSE <<>>)
    \o (IF s.securityHeaders.score < 20
        THEN << Recommendation("security", "high", "Missing Security Headers",
                               "Important security headers are missing.") >> ELSE <<>>)
    \o (IF CountSeverity(s.consoleWarnings, "high") > 0
        THEN << Recommendation("security", "high", "High Severity Security Warnings",
                               ToString(CountSeverity(s.consoleWarnings, "high"))
                                   \o " high severity security issues detected.") >>
        ELSE <<>>)
    \o (IF \E i \in 1 .. Len(s.reputationChecks) :
              s.reputationChecks[i].status \in {"warning", "malicious"}
        THEN << Recommendation("security", "critical", "Security Reputation Issues",
                               "Site flagged by security reputation services.") >> ELSE <<>>)
    \o CriticalRule(s) \o CommonRules(g, a)

generateRecommendations(s, g, a) == SortBySeverity(WorkerRules(s, g, a))

(***************************************************************************)
(* The rest of WordPressAnalyzer.analyze / analyzeWebsite.                 *)
(***************************************************************************)
\* const categoryScores = { security: security.score, gdpr: gdpr.score, ... }
CollectCategoryScores ==
    /\ pc = "score"
    /\ categoryScores' = [security      |-> security.score,
                          gdpr          |-> gdpr.score,
                          accessibility |-> accessibility.score]
    /\ pc' = "overall"
    /\ UNCHANGED <<engine, doc, net, clock, security, gdpr, accessibility, overallScore,
                   recommendations, reports,
                   request, page, sent, response, grades, db, logged, admin, panel>>

BackendGenerateRecommendations ==
    /\ engine = "backend"
    /\ pc = "recommend"
    /\ recommendations' = WordPressAnalyzer_generateRecommendations(security, gdpr, accessibility)
    /\ pc' = "return"
    /\ UNCHANGED <<engine, doc, net, clock, security, gdpr, accessibility, categoryScores,
                   overallScore, reports,
                   request, page, sent, response, grades, db, logged, admin, panel>>

WorkerGenerateRecommendations ==
    /\ engine = "worker"
    /\ pc = "recommend"
    /\ recommendations' = generateRecommendations(security, gdpr, accessibility)
    /\ pc' = "return"
    /\ UNCHANGED <<engine, doc, net, clock, security, gdpr, accessibility, categoryScores,
                   overallScore, reports,
                   request, page, sent, response, grades, db, logged, admin, panel>>

\* return { url, timestamp: new Date().toISOString(), security, ... }; the url
\* is the request's and is left out
ReturnReport ==
    /\ pc = "return"
    /\ \E now \in clock .. MaxClock :
          /\ reports' = Append(reports,
                               [timestamp       |-> now,
                                security        |-> security,
                                gdpr            |-> gdpr,
                                accessibility   |-> accessibility,
                                overallScore    |-> overallScore,
                                categoryScores  |-> categoryScores,
                                recommendations |-> recommendations])
          /\ clock' = now
    /\ pc' = "done"
    /\ UNCHANGED <<engine, doc, net, security, gdpr, accessibility, categoryScores,
                   overallScore, recommendations,
                   request, page, sent, response, grades, db, logged, admin, panel>>

\* the same url is analysed up to MaxRuns times
MaxRuns == 2

\* the next request for the url: the page and the probes answer as before
AnalyzeAgain ==
    /\ pc = "done"
    /\ Len(reports) < MaxRuns
    /\ pc' = "security"
    /\ security' = Pending
    /\ gdpr' = Pending
    /\ accessibility' = Pending
    /\ categoryScores' = Pending
    /\ overallScore' = 0
    /\ recommendations' = <<>>
    /\ sent' = Append(sent, "GET")
    /\ UNCHANGED <<engine, doc, net, clock, reports, request, page, response, grades, db, logged, admin, panel>>

(***************************************************************************)
(* The pages and probe answers whole requests are run on.                  *)
(***************************************************************************)
\* up to MaxRepeat copies of a faulty element on a page
MaxRepeat == 13

Repeat(x, n) == [i \in 1 .. n |-> x]

PageHeads ==
    { [generator |-> Undefined, assets |-> <<>>, marks |-> {}],
      [generator |-> <<"WordPress", " ", "5", ".", "9">>, assets |-> <<>>, marks |-> {}],
      [generator |-> Undefined, assets |-> <<>>,
       marks |-> {"link[rel=pingback]", "link[rel=https://api.w.org/]"}],
      [generator |-> Undefined,
       assets |-> << IncludesScript(<<"6", ".", "4">>),
                     [tag |-> "script",
                      url |-> <<"/", "wp-content", "/", "plugins", "/", "old-vulnerable-plugin",
                                "/", "main.js", "?", "ver=", "6", ".", "0">>] >>,
       marks |-> {}],
      [generator |-> <<"WordPress", " ", "5", ".", "9">>,
       assets |-> << [tag |-> "script",
                      url |-> <<"/", "wp-content", "/", "plugins", "/", "old-vulnerable-plugin",
                                "/", "main.js">>] >>,
       marks |-> {}] }

PageBodies ==
    { <<>>,
      << El("a", <<"cookie", "-", "consent">>, Undefined, <<"/", "privacy">>, Undefined,
            <<"Privacy", " ", "Policy">>) >>,
      << Script(Undefined, <<"gtag", "(", "'", "config", "'", ",", "'", "G-", "ABC123", "'", ")">>),
         Script(Undefined, <<"fbq", "(", "'", "init", "'", ")">>),
         El("a", Undefined, Undefined, <<"/", "datenschutz">>, Undefined, <<"Datenschutz">>) >>,
      << Script(<<"http://", "cdn", ".", "example", ".", "com", "/", "jquery", "-", "3", ".", "4",
                  ".", "1", ".", "min", ".", "js">>, <<>>),
         Script(Undefined, <<"jQuery", "(", "document", ".", "write", ")", ";", "eval", " ", "(",
                             "x", ")">>),
         El("a", Undefined, Undefined, <<"https://", "example", ".", "com", "/admin">>, Undefined,
            <<"Accept", " ", "cookie", "s">>) >> }

\* a current WordPress page with a consent link, a privacy policy and one
\* heading
CleanPage ==
    [EmptyDoc EXCEPT
        !.assets   = << IncludesScript(<<"6", ".", "4">>) >>,
        !.headings = << [level |-> 1, text |-> <<"Intro">>] >>,
        !.elements = << El("a", <<"cookie", "-", "consent">>, Undefined, <<"/", "privacy">>,
                           Undefined, <<"Privacy", " ", "Policy">>) >>]

AnalysisDocs ==
    { [generator |-> h.generator, assets |-> h.assets, marks |-> h.marks,
       images    |-> Repeat(Img(Undefined, Undefined), n),
       headings  |-> Flatten(Repeat(<< [level |-> 1, text |-> <<"Intro">>],
                                       [level |-> 3, text |-> <<" ">>] >>, m)),
       controls  |-> Repeat([tag |-> "input", type |-> Undefined, id |-> Undefined,
                             ariaLabel |-> Undefined, ariaLabelledby |-> Undefined,
                             title |-> Undefined, text |-> <<>>], c),
       labelsFor |-> {}, elements |-> b] :
        h \in PageHeads, b \in PageBodies,
        n \in {0, 1, MaxRepeat}, m \in {0, 1, MaxRepeat}, c \in {0, MaxRepeat} }
    \cup { CleanPage }

AnalysisProbes ==
    { NoProbes,
      [https |-> FALSE, sslHead |-> "ok", headersHead |-> "ok", headers |-> {}],
      [https |-> TRUE, sslHead |-> "notok", headersHead |-> "throws", headers |-> HeaderNames],
      [https |-> TRUE, sslHead |-> "throws", headersHead |-> "ok",
       headers |-> {"content-security-policy", "feature-policy"}],
      [https |-> TRUE, sslHead |-> "ok", headersHead |-> "ok", headers |-> HeaderNames] }

\* One request, from the fetched page to the returned report, at one time.
InitAnalysis ==
    /\ engine \in Engines
    /\ pc = "security"
    /\ doc \in AnalysisDocs
    /\ net \in IF engine = "worker" THEN AnalysisProbes ELSE {NoProbes}
    /\ clock = MaxClock
    /\ security = Pending
    /\ gdpr = Pending
    /\ accessibility = Pending
    /\ categoryScores = Pending
    /\ overallScore = 0
    /\ recommendations = <<>>
    /\ reports = <<>>
    /\ FetchedOk

NextAnalysis ==
    \/ BackendSecurityAnalyze \/ WorkerSecurityAnalyze
    \/ BackendGDPRAnalyze \/ WorkerGDPRAnalyze
    \/ BackendAccessibilityAnalyze \/ WorkerAccessibilityAnalyze
    \/ CollectCategoryScores
    \/ BackendCalculateOverall \/ WorkerCalculateOverall
    \/ BackendGenerateRecommendations \/ WorkerGenerateRecommendations
    \/ ReturnReport

SpecAnalysis == InitAnalysis /\ [][NextAnalysis]_vars

\* WordPressAnalyzer.analyze of the backend, run on the pages of the security
\* analyzer
NextBackendReport ==
    \/ BackendSecurityAnalyze
    \/ BackendGDPRAnalyze
    \/ BackendAccessibilityAnalyze
    \/ CollectCategoryScores
    \/ BackendCalculateOverall
    \/ BackendGenerateRecommendations
    \/ ReturnReport

SpecBackendReport == InitSecurity /\ [][NextBackendReport]_vars

\* The same url analysed again and again while the clock runs.
PipelineDocs ==
    { d \in AnalysisDocs :
        /\ Len(d.images) = 1 /\ Len(d.headings) = 2 /\ d.controls = <<>>
        /\ d.generator = Undefined /\ d.assets = <<>>
        /\ Len(d.elements) \in {0, 3} }

PipelineProbes ==
    { n \in AnalysisProbes : n.https /\ n.headersHead = "ok" }

InitPipeline ==
    /\ engine \in Engines
    /\ pc = "security"
    /\ doc \in PipelineDocs
    /\ net \in IF engine = "worker" THEN PipelineProbes ELSE {NoProbes}
    /\ clock = 0
    /\ security = Pending
    /\ gdpr = Pending
    /\ accessibility = Pending
    /\ categoryScores = Pending
    /\ overallScore = 0
    /\ recommendations = <<>>
    /\ reports = <<>>
    /\ FetchedOk

NextPipeline == NextAnalysis \/ AnalyzeAgain

SpecPipeline == InitPipeline /\ [][NextPipeline]_vars

(***************************************************************************)
(* GET /api/analyze: the Express route (analyzeRoute) and the worker's     *)
(* fetch handler, from the url parameter to the answer.  The stages before *)
(* the analyzers are request -> fetch; after the report, done -> responded.*)
(***************************************************************************)
Schemes == {"http:", "https:", "ftp:"}

\* a slip: the url is not validated
NewURLThrows_Never(x) == FALSE

\* new URL(x) throws: x has no scheme (a relative url without a base), or
\* nothing follows the "//" of a special scheme
NewURLThrows(x) ==
    \/ Len(x) < 3
    \/ x[1] \notin Schemes
    \/ x[2] # "//"

\* res.status(status).json({ error, message }) / new Response(JSON.stringify(body))
Answer(status, error, message, body) ==
    [status |-> status, error |-> error, message |-> message, body |-> body]

\* axios.get(url, { timeout: 15000, validateStatus: status < 500 }): what the
\* promise settles to
axiosGet(p) ==
    CASE p.outcome = "hangs"  -> [settled |-> "rejected", message |-> "timeout of 15000ms exceeded"]
      [] p.outcome = "throws" -> [settled |-> "rejected", message |-> "Network Error"]
      [] p.status < 500       -> [settled |-> "resolved", message |-> ""]
      [] OTHER                -> [settled |-> "rejected", message |-> "Request failed with status code"]

\* the worker's fetch(url, { headers }) followed by if (!response.ok) throw
workerFetch(p) ==
    CASE p.outcome = "hangs"   -> [settled |-> "pending", message |-> ""]
      [] p.outcome = "throws"  -> [settled |-> "rejected", message |-> "Network Error"]
      [] p.status \in 200 .. 299 -> [settled |-> "resolved", message |-> ""]
      [] OTHER                 -> [settled |-> "rejected", message |-> "Failed to fetch website"]

\* router.get('/analyze'): the url is validated, then analyzer.analyze(url)
\* issues the GET of the page
AnalyzeRoute ==
    /\ engine = "backend"
    /\ pc = "request"
    /\ IF request.kind # "string" \/ request.value = <<>>
       THEN /\ response' = Answer(400, "URL parameter is required", "", <<>>)
            /\ pc' = "responded"
            /\ UNCHANGED sent
       ELSE IF NewURLThrows(request.value)
            THEN /\ response' = Answer(400, "Invalid URL format", "", <<>>)
                 /\ pc' = "responded"
                 /\ UNCHANGED sent
            ELSE /\ sent' = Append(sent, "GET")
                 /\ pc' = "fetch"
                 /\ UNCHANGED response
    /\ UNCHANGED <<engine, doc, net, clock, security, gdpr, accessibility, categoryScores,
                   overallScore, recommendations, reports, request, page, grades, db, logged, admin, panel>>

\* the analytics handed to logSearchAnalytics: the url, the four scores
\* (overall, security, gdpr, accessibility) or none, and the error message or
\* undefined
SearchAnalytics(url, scores, error_message) ==
    [url |-> url, scores |-> scores, error_message |-> error_message]

\* a slip: a failed insert is not caught and the handler's catch logs again
logSearchAnalytics_Rethrows(analytics) ==
    \/ /\ logged' = Append(logged, analytics)
       /\ db' = [db EXCEPT !.searches = Append(@, analytics)]
    \/ /\ logged' = logged \o << analytics,
                                 [analytics EXCEPT !.scores = <<>>,
                                                   !.error_message = <<"D1_ERROR">>] >>
       /\ db' = db

\* await logSearchAnalytics(env.DB, analytics, request): the row is inserted,
\* or the insert fails and the failure is logged to the console and dropped
logSearchAnalytics(analytics) ==
    /\ logged' = Append(logged, analytics)
    /\ \/ db' = [db EXCEPT !.searches = Append(@, analytics)]
       \/ db' = db

\* the worker's fetch handler on GET /api/analyze: searchParams.get('url') is
\* null when the parameter is absent and its first value otherwise; the two
\* rejections are logged before they are answered
WorkerHandleAnalyze ==
    /\ engine = "worker"
    /\ pc = "request"
    /\ IF request.kind = "absent" \/ request.value = <<>>
       THEN /\ logSearchAnalytics(SearchAnalytics(<<>>, <<>>, <<"URL parameter is required">>))
            /\ response' = Answer(400, "URL parameter is required", "", <<>>)
            /\ pc' = "responded"
            /\ UNCHANGED sent
       ELSE IF NewURLThrows(request.value)
            THEN /\ logSearchAnalytics(SearchAnalytics(request.value, <<>>,
                                                       <<"Invalid URL format">>))
                 /\ response' = Answer(400, "Invalid URL format", "", <<>>)
                 /\ pc' = "responded"
                 /\ UNCHANGED sent
            ELSE /\ sent' = Append(sent, "GET")
                 /\ pc' = "fetch"
                 /\ UNCHANGED <<response, db, logged>>
    /\ UNCHANGED <<engine, doc, net, clock, security, gdpr, accessibility, categoryScores,
                   overallScore, recommendations, reports, request, page, grades, admin, panel>>

\* WordPressAnalyzer.analyze: await axios.get(...); a rejection is rethrown as
\* 'Failed to analyze website: ...' and the route answers 500
BackendPageFetched ==
    /\ engine = "backend"
    /\ pc = "fetch"
    /\ LET got == axiosGet(page)
       IN  IF got.settled = "resolved"
           THEN /\ pc' = "security"
                /\ UNCHANGED response
           ELSE /\ response' = Answer(500, "Failed to analyze website", got.message, <<>>)
                /\ pc' = "responded"
    /\ UNCHANGED <<engine, doc, net, clock, security, gdpr, accessibility, categoryScores,
                   overallScore, recommendations, reports, request, page, sent, grades, db, logged, admin, panel>>

\* analyzeWebsite: await fetch(url, ...); if (!response.ok) throw; the catch
\* rethrows and the handler answers 500.  Nothing happens while the fetch is
\* pending.
WorkerPageFetched ==
    /\ engine = "worker"
    /\ pc = "fetch"
    /\ LET got == workerFetch(page)
       IN  /\ got.settled # "pending"
           /\ IF got.settled = "resolved"
              THEN /\ pc' = "security"
                   /\ UNCHANGED <<response, db, logged>>
              ELSE /\ logSearchAnalytics(SearchAnalytics(request.value, <<>>, <<got.message>>))
                   /\ response' = Answer(500, "Failed to analyze website", got.message, <<>>)
                   /\ pc' = "responded"
    /\ UNCHANGED <<engine, doc, net, clock, security, gdpr, accessibility, categoryScores,
                   overallScore, recommendations, reports, request, page, sent, grades,
                   admin, panel>>

\* analyzeSecurityWorker awaits a HEAD probe that never answers: the probes up
\* to that one have been sent and the analysis waits at the await
WorkerProbePending ==
    /\ engine = "worker"
    /\ pc = "security"
    /\ ProbeHangs(net)
    /\ sent' = sent \o (IF net.https THEN <<"HEAD">> ELSE <<>>)
                    \o (IF net.https /\ net.sslHead = "hangs" THEN <<>> ELSE <<"HEAD">>)
    /\ pc' = "probing"
    /\ UNCHANGED <<engine, doc, net, clock, security, gdpr, accessibility, categoryScores,
                   overallScore, recommendations, reports, request, page, response, grades, db, logged, admin, panel>>

\* res.json(analysis) / new Response(JSON.stringify(analysis)); the worker
\* logs the analysis with its scores first
RespondReport ==
    /\ pc = "done"
    /\ LET analysis == reports[Len(reports)]
       IN  /\ IF engine = "worker"
              THEN logSearchAnalytics(
                       SearchAnalytics(request.value,
                                       << analysis.overallScore,
                                          analysis.categoryScores.security,
                                          analysis.categoryScores.gdpr,
                                          analysis.categoryScores.accessibility >>,
                                       Undefined))
              ELSE UNCHANGED <<db, logged>>
           /\ response' = Answer(200, "", "", <<analysis>>)
    /\ pc' = "responded"
    /\ UNCHANGED <<engine, doc, net, clock, security, gdpr, accessibility, categoryScores,
                   overallScore, recommendations, reports, request, page, sent, grades,
                   admin, panel>>

\* the url parameters, the answers of the target and of the probes
RequestParams ==
    { UrlParam("absent", <<>>), UrlParam("string", <<>>),
      UrlParam("string", <<"example.com">>), UrlParam("string", <<"http:", "//">>),
      UrlParam("string", HttpUrl), UrlParam("string", HttpsUrl),
      UrlParam("array", HttpsUrl),
      UrlParam("string", <<"ftp:", "//", "example.com">>) }

PageAnswers ==
    { PageAnswer("response", s) : s \in {200, 404, 503} }
        \cup { PageAnswer("throws", 0), PageAnswer("hangs", 0) }

IsHttps(r) == r.value # <<>> /\ r.value[1] = "https:"

RequestProbes ==
    [https : BOOLEAN, sslHead : {"ok", "notok", "throws", "hangs"},
     headersHead : {"ok", "notok", "throws", "hangs"},
     headers : { {}, {"x-frame-options"}, HeaderNames }]

RequestDocs ==
    { d \in PipelineDocs : Len(d.elements) = 3 } \cup { EmptyDoc }

InitRequest ==
    /\ engine \in Engines
    /\ pc = "request"
    /\ request \in RequestParams
    /\ page \in PageAnswers
    /\ (request.value # <<>> /\ request.value[1] = "ftp:") => page.outcome = "throws"
    /\ doc \in RequestDocs
    /\ net \in IF engine = "worker"
               THEN { n \in RequestProbes : n.https = IsHttps(request) }
               ELSE { NoProbes }
    /\ clock = MaxClock
    /\ security = Pending
    /\ gdpr = Pending
    /\ accessibility = Pending
    /\ categoryScores = Pending
    /\ overallScore = 0
    /\ recommendations = <<>>
    /\ reports = <<>>
    /\ sent = <<>>
    /\ response = Pending
    /\ grades = Pending
    /\ AdminIdle

NextRequest ==
    \/ AnalyzeRoute \/ WorkerHandleAnalyze
    \/ BackendPageFetched \/ WorkerPageFetched
    \/ WorkerProbePending
    \/ NextAnalysis
    \/ RespondReport

SpecRequest == InitRequest /\ [][NextRequest]_vars

\* The requests followed to their end: one page, no response header.
InitRequestLive ==
    /\ InitRequest
    /\ request \in { UrlParam("string", <<"example.com">>),
                     UrlParam("string", HttpUrl), UrlParam("string", HttpsUrl) }
    /\ doc = EmptyDoc
    /\ net.headers = {}

\* Every step of a request is taken as soon as what it awaits has settled: the
\* event loop runs a continuation whose promise is settled.
\* The step of BackendCalculateOverall and WorkerCalculateOverall as seen from
\* outside: the request moves from overall to recommend with a score in 0..100.
\* Under [][NextRequest]_vars the steps of this action are the steps of those
\* two, and it is enabled exactly when one of them is.
OverallCalculated ==
    /\ pc = "overall"
    /\ pc' = "recommend"
    /\ overallScore' \in 0 .. 100
    /\ UNCHANGED <<engine, doc, net, clock, security, gdpr, accessibility, categoryScores,
                   recommendations, reports, request, page, sent, response, grades, db, logged, admin, panel>>

RequestFairness ==
    /\ WF_vars(AnalyzeRoute) /\ WF_vars(WorkerHandleAnalyze)
    /\ WF_vars(BackendPageFetched) /\ WF_vars(WorkerPageFetched)
    /\ WF_vars(WorkerProbePending)
    /\ WF_vars(BackendSecurityAnalyze) /\ WF_vars(WorkerSecurityAnalyze)
    /\ WF_vars(BackendGDPRAnalyze) /\ WF_vars(WorkerGDPRAnalyze)
    /\ WF_vars(BackendAccessibilityAnalyze) /\ WF_vars(WorkerAccessibilityAnalyze)
    /\ WF_vars(CollectCategoryScores)
    /\ WF_vars(OverallCalculated)
    /\ WF_vars(BackendGenerateRecommendations) /\ WF_vars(WorkerGenerateRecommendations)
    /\ WF_vars(ReturnReport)
    /\ WF_vars(RespondReport)

SpecRequestLive == InitRequestLive /\ [][NextRequest]_vars /\ RequestFairness

(***************************************************************************)
(* The three category analyzers run as concurrent tasks on the fetched     *)
(* page (stage "analyzers") and joined before the scores are collected.    *)
(* A task runs to its next await without interruption; the only awaits     *)
(* inside an analyzer are those of the worker's HEAD probes.  What each    *)
(* task reads and writes is what the analyzer's code reads and writes:     *)
(* none of them writes the document, the probe answers or another result.  *)
(***************************************************************************)
\* analyzeSecurityWorker has sent its probes and awaits them
Probing == [pending |-> TRUE, probing |-> TRUE]

\* analyzeSecurityWorker up to its awaits: the HEAD probes are sent
AnyOrderSecurityProbes ==
    /\ pc = "analyzers"
    /\ engine = "worker"
    /\ security = Pending
    /\ security' = Probing
    /\ sent' = sent \o (IF net.https THEN <<"HEAD">> ELSE <<>>) \o <<"HEAD">>
    /\ UNCHANGED <<engine, pc, doc, net, clock, gdpr, accessibility, categoryScores,
                   overallScore, recommendations, reports, request, page, response, grades, db, logged, admin, panel>>

\* a slip: the security task takes the scripts it has scanned out of the document
AnyOrderSecurity_RemovesScripts ==
    /\ pc = "analyzers"
    /\ IF engine = "backend"
       THEN /\ security = Pending
            /\ security' = SecurityAnalyzer_analyze(doc)
            /\ UNCHANGED clock
       ELSE /\ security = Probing
            /\ \E t1, t2, t3 \in clock .. MaxClock :
                  /\ t1 <= t2 /\ t2 <= t3
                  /\ security' = analyzeSecurityWorker(doc, net, <<t1, t2, t3>>)
                  /\ clock' = t3
    /\ doc' = [doc EXCEPT !.elements = SelectSeq(doc.elements, LAMBDA el : el.tag # "script"),
                          !.images = <<>>]
    /\ UNCHANGED <<engine, pc, net, gdpr, accessibility, categoryScores, overallScore,
                   recommendations, reports, request, page, sent, response, grades, db, logged, admin, panel>>

\* securityAnalyzer.analyze($, url) / the rest of analyzeSecurityWorker(html, url)
AnyOrderSecurity ==
    /\ pc = "analyzers"
    /\ IF engine = "backend"
       THEN /\ security = Pending
            /\ security' = SecurityAnalyzer_analyze(doc)
            /\ UNCHANGED clock
       ELSE /\ security = Probing
            /\ \E t1, t2, t3 \in clock .. MaxClock :
                  /\ t1 <= t2 /\ t2 <= t3
                  /\ security' = analyzeSecurityWorker(doc, net, <<t1, t2, t3>>)
                  /\ clock' = t3
    /\ UNCHANGED <<engine, pc, doc, net, gdpr, accessibility, categoryScores, overallScore,
                   recommendations, reports, request, page, sent, response, grades, db, logged, admin, panel>>

\* gdprAnalyzer.analyze($, url) / analyzeGDPRWorker(html, url)
AnyOrderGDPR ==
    /\ pc = "analyzers"
    /\ gdpr = Pending
    /\ gdpr' = IF engine = "backend" THEN GDPRAnalyzer_analyze(doc) ELSE analyzeGDPRWorker(doc)
    /\ UNCHANGED <<engine, pc, doc, net, clock, security, accessibility, categoryScores,
                   overallScore, recommendations, reports, request, page, sent, response, grades, db, logged, admin, panel>>

\* accessibilityAnalyzer.analyze($) / analyzeAccessibilityWorker(html)
AnyOrderAccessibility ==
    /\ pc = "analyzers"
    /\ accessibility = Pending
    /\ accessibility' = IF engine = "backend" THEN AccessibilityAnalyzer_analyze(doc)
                        ELSE analyzeAccessibilityWorker(doc)
    /\ UNCHANGED <<engine, pc, doc, net, clock, security, gdpr, categoryScores,
                   overallScore, recommendations, reports, request, page, sent, response, grades, db, logged, admin, panel>>

\* the three tasks are joined: the orchestrator goes on with the scores
AnalyzersJoined ==
    /\ pc = "analyzers"
    /\ security \notin {Pending, Probing}
    /\ gdpr # Pending
    /\ accessibility # Pending
    /\ pc' = "score"
    /\ UNCHANGED <<engine, doc, net, clock, security, gdpr, accessibility, categoryScores,
                   overallScore, recommendations, reports, request, page, sent, response, grades, db, logged, admin, panel>>

AnyOrderDocs ==
    { d \in AnalysisDocs : Len(d.images) = 1 /\ Len(d.headings) = 2 /\ d.controls = <<>> }

InitAnyOrder ==
    /\ engine \in Engines
    /\ pc = "analyzers"
    /\ doc \in AnyOrderDocs
    /\ net \in IF engine = "worker" THEN AnalysisProbes ELSE {NoProbes}
    /\ clock = MaxClock
    /\ security = Pending
    /\ gdpr = Pending
    /\ accessibility = Pending
    /\ categoryScores = Pending
    /\ overallScore = 0
    /\ recommendations = <<>>
    /\ reports = <<>>
    /\ FetchedOk

NextAnyOrder ==
    \/ AnyOrderSecurityProbes \/ AnyOrderSecurity
    \/ AnyOrderGDPR \/ AnyOrderAccessibility
    \/ AnalyzersJoined
    \/ CollectCategoryScores
    \/ BackendCalculateOverall \/ WorkerCalculateOverall
    \/ BackendGenerateRecommendations \/ WorkerGenerateRecommendations
    \/ ReturnReport

SpecAnyOrder == InitAnyOrder /\ [][NextAnyOrder]_vars

(***************************************************************************)
(* The frontend shows the report: ScoreCard grades the overall score,      *)
(* SimpleApp the overall score and the three category scores.              *)
(***************************************************************************)
RenderGrades ==
    /\ pc = "responded"
    /\ grades = Pending
    /\ grades' = [scoreCard |-> ScoreCard_getScoreGrade(overallScore),
                  simpleApp |-> [overall       |-> SimpleApp_getScoreGrade(overallScore),
                                 security      |-> SimpleApp_getScoreGrade(categoryScores.security),
                                 gdpr          |-> SimpleApp_getScoreGrade(categoryScores.gdpr),
                                 accessibility |-> SimpleApp_getScoreGrade(categoryScores.accessibility)]]
    /\ pc' = "rendered"
    /\ UNCHANGED <<engine, doc, net, clock, security, gdpr, accessibility, categoryScores,
                   overallScore, recommendations, reports, request, page, sent, response,
                   db, logged, admin, panel>>

\* the scores at and next to the thresholds of the grades
GradeEdges == {0, 59, 60, 69, 70, 79, 80, 89, 90, 100}

\* a report has been answered: any overall score, category scores at the edges
InitGrade ==
    /\ engine \in Engines
    /\ pc = "responded"
    /\ overallScore \in ScoreRange
    /\ categoryScores \in [security : GradeEdges, gdpr : {59, 60}, accessibility : {89, 90}]
    /\ doc = EmptyDoc
    /\ net = NoProbes
    /\ clock = 0
    /\ security = Pending
    /\ gdpr = Pending
    /\ accessibility = Pending
    /\ recommendations = <<>>
    /\ reports = <<>>
    /\ request = UrlParam("string", HttpsUrl)
    /\ page = PageAnswer("response", 200)
    /\ sent = <<"GET">>
    /\ response = Answer(200, "", "", <<>>)
    /\ grades = Pending
    /\ AdminIdle

SpecGrade == InitGrade /\ [][RenderGrades]_vars

(***************************************************************************)
(* The worker's admin endpoints: login, analytics and logout, with the     *)
(* admin_sessions table of the D1 database.  The clock counts the hours    *)
(* since 2026-11-01T00:00:00Z.  A statement sent to D1 succeeds or fails.   *)
(***************************************************************************)
\* 24 * 60 * 60 * 1000 ms, in hours
SessionHours == 24

DigitChars == <<"0", "1", "2", "3", "4", "5", "6", "7", "8", "9">>

\* padStart(2, '0') of a number below 100
TwoDigits(n) == << DigitChars[(n \div 10) + 1], DigitChars[(n % 10) + 1] >>

\* the day of the month and the hour of the day of an hour of the clock
DayOf(t)  == (t \div 24) + 1
HourOf(t) == t % 24

\* new Date(t).toISOString(): YYYY-MM-DDTHH:mm:ss.sssZ
toISOString(t) ==
    <<"2", "0", "2", "6", "-", "1", "1", "-">> \o TwoDigits(DayOf(t)) \o <<"T">>
        \o TwoDigits(HourOf(t)) \o <<":", "0", "0", ":", "0", "0", ".", "0", "0", "0", "Z">>

\* SQLite datetime('now'): YYYY-MM-DD HH:MM:SS, in UTC
datetimeNow(t) ==
    <<"2", "0", "2", "6", "-", "1", "1", "-">> \o TwoDigits(DayOf(t)) \o <<" ">>
        \o TwoDigits(HourOf(t)) \o <<":", "0", "0", ":", "0", "0">>

\* the code of a character of a date string
CharCode(c) ==
    CASE c = " " -> 32 [] c = "-" -> 45 [] c = "." -> 46 [] c = ":" -> 58
      [] c = "T" -> 84 [] c = "Z" -> 90
      [] OTHER -> 48 + (CHOOSE k \in 0 .. 9 : DigitChars[k + 1] = c)

\* a > b for two TEXT values in SQLite (BINARY collation: memcmp, and of two
\* texts one of which starts the other the longer is greater)
TextGreater(a, b) ==
    \/ \E i \in 1 .. Min(Len(a), Len(b)) :
          /\ \A k \in 1 .. i - 1 : a[k] = b[k]
          /\ CharCode(a[i]) > CharCode(b[i])
    \/ /\ Len(a) > Len(b)
       /\ \A k \in 1 .. Len(b) : a[k] = b[k]

\* env.ADMIN_USERNAME, and hashPassword: the SHA-256 digest in hex
ADMIN_USERNAME == <<"admin">>
hashPassword(password) == <<"sha256:">> \o password
ADMIN_PASSWORD_HASH == hashPassword(<<"correct horse">>)

verifyPassword(password, hash) == hashPassword(password) = hash

\* generateSessionToken draws 32 random bytes: the tokens it can return
SessionTokens == { <<"token-a">>, <<"token-b">> }

\* the row createAdminSession inserts
AdminSession(sessionToken, now) ==
    [session_token |-> sessionToken, expires_at |-> toISOString(now + SessionHours)]

\* validateAdminSession: SELECT expires_at ... WHERE session_token = ? AND
\* expires_at > datetime('now'); a failed query is caught and gives false
validateAdminSession(database, sessionToken, now, queryOk) ==
    /\ queryOk
    /\ \E row \in database.sessions :
          /\ row.session_token = sessionToken
          /\ TextGreater(row.expires_at, datetimeNow(now))

\* request.headers.get('Authorization')?.replace('Bearer ', '')
BearerToken(authorization) ==
    IF authorization = Undefined THEN Undefined
    ELSE IF \E i \in 1 .. Len(authorization) : authorization[i] = "Bearer "
         THEN LET first == CHOOSE i \in 1 .. Len(authorization) :
                              /\ authorization[i] = "Bearer "
                              /\ \A k \in 1 .. i - 1 : authorization[k] # "Bearer "
              IN  SubSeq(authorization, 1, first - 1)
                      \o SubSeq(authorization, first + 1, Len(authorization))
         ELSE authorization

\* what the caller of an admin endpoint got back
Exchange(op, token, status, error) ==
    [op |-> op, token |-> token, status |-> status, error |-> error]

\* the request bodies of the logins and the Authorization headers tried
LoginBodies ==
    { [username |-> ADMIN_USERNAME, password |-> <<"correct horse">>],
      [username |-> ADMIN_USERNAME, password |-> <<"wrong">>],
      [username |-> <<"root">>, password |-> <<"correct horse">>],
      [username |-> ADMIN_USERNAME, password |-> <<>>] }

Authorizations ==
    { Undefined, <<"Bearer ">>, <<"Bearer ", "token-a">>, <<"Bearer ", "token-b">>,
      <<"Bearer ", "token-x">> }

\* handleAdminLogin: with the right credentials a session is created and its
\* token returned; a failed INSERT is answered with 500
handleAdminLogin ==
    /\ pc = "admin"
    /\ \E body \in LoginBodies, sessionToken \in SessionTokens, insertOk \in BOOLEAN :
          /\ sessionToken \notin DOMAIN admin.issued
          /\ IF body.username = ADMIN_USERNAME
                  /\ verifyPassword(body.password, ADMIN_PASSWORD_HASH)
             THEN IF insertOk
                  THEN /\ db' = [db EXCEPT !.sessions = @ \cup {AdminSession(sessionToken, clock)}]
                       /\ admin' = [admin EXCEPT
                                       !.issued = [t \in DOMAIN @ \cup {sessionToken} |->
                                                      IF t = sessionToken THEN clock ELSE @[t]],
                                       !.last = Exchange("login", sessionToken, 200, "")]
                  ELSE /\ db' = db
                       /\ admin' = [admin EXCEPT
                                       !.last = Exchange("login", <<>>, 500, "Login failed")]
             ELSE /\ db' = db
                  /\ admin' = [admin EXCEPT
                                  !.last = Exchange("login", <<>>, 401, "Invalid credentials")]
    /\ UNCHANGED <<engine, pc, doc, net, clock, security, gdpr, accessibility, categoryScores,
                   overallScore, recommendations, reports, request, page, sent, response,
                   grades, logged, panel>>

\* handleAdminAnalytics: 401 without a valid session, the analytics otherwise;
\* a failed analytics query is answered with 500
handleAdminAnalytics ==
    /\ pc = "admin"
    /\ \E authorization \in Authorizations, validateOk \in BOOLEAN, queriesOk \in BOOLEAN :
          LET sessionToken == BearerToken(authorization)
          IN  admin' = [admin EXCEPT !.last =
                  IF ~Truthy(sessionToken)
                        \/ ~validateAdminSession(db, sessionToken, clock, validateOk)
                  THEN Exchange("analytics", sessionToken, 401, "Unauthorized")
                  ELSE IF queriesOk
                       THEN Exchange("analytics", sessionToken, 200, "")
                       ELSE Exchange("analytics", sessionToken, 500, "Failed to fetch analytics")]
    /\ UNCHANGED <<engine, pc, doc, net, clock, security, gdpr, accessibility, categoryScores,
                   overallScore, recommendations, reports, request, page, sent, response,
                   grades, db, logged, panel>>

\* deleteAdminSession: DELETE FROM admin_sessions WHERE session_token = ?; a
\* failed DELETE is logged to the console and dropped
deleteAdminSession(database, sessionToken, deleteOk) ==
    IF deleteOk
    THEN [database EXCEPT !.sessions = { row \in @ : row.session_token # sessionToken }]
    ELSE database

\* handleAdminLogout: the session of the token is deleted and success answered
handleAdminLogout ==
    /\ pc = "admin"
    /\ \E authorization \in Authorizations, deleteOk \in BOOLEAN :
          LET sessionToken == BearerToken(authorization)
          IN  /\ db' = IF Truthy(sessionToken)
                       THEN deleteAdminSession(db, sessionToken, deleteOk)
                       ELSE db
              /\ admin' = [admin EXCEPT
                              !.revoked = @ \cup ({sessionToken} \cap DOMAIN admin.issued),
                              !.deleted = IF deleteOk
                                          THEN @ \cup ({sessionToken} \cap DOMAIN admin.issued)
                                          ELSE @,
                              !.last = Exchange("logout", sessionToken, 200, "")]
    /\ UNCHANGED <<engine, pc, doc, net, clock, security, gdpr, accessibility, categoryScores,
                   overallScore, recommendations, reports, request, page, sent, response,
                   grades, logged, panel>>

\* the hours the clock is followed for, and the steps it is read at
MaxHour == 48

ClockSteps == {12}

\* time passes between two admin requests
HoursPass ==
    /\ pc = "admin"
    /\ \E step \in ClockSteps :
          /\ clock + step <= MaxHour
          /\ clock' = clock + step
    /\ UNCHANGED <<engine, pc, doc, net, security, gdpr, accessibility, categoryScores,
                   overallScore, recommendations, reports, request, page, sent, response,
                   grades, db, logged, admin, panel>>

\* the worker is deployed with an empty database
InitAdmin ==
    /\ engine = "worker"
    /\ pc = "admin"
    /\ doc = EmptyDoc
    /\ net = NoProbes
    /\ clock = 0
    /\ security = Pending
    /\ gdpr = Pending
    /\ accessibility = Pending
    /\ categoryScores = Pending
    /\ overallScore = 0
    /\ recommendations = <<>>
    /\ reports = <<>>
    /\ request = UrlParam("absent", <<>>)
    /\ page = PageAnswer("response", 200)
    /\ sent = <<>>
    /\ response = Pending
    /\ grades = Pending
    /\ AdminIdle

NextAdmin == handleAdminLogin \/ handleAdminAnalytics \/ handleAdminLogout \/ HoursPass

SpecAdmin == InitAdmin /\ [][NextAdmin]_vars

(***************************************************************************)
(* The admin frontend: AdminPanel, AdminLogin and AdminDashboard.  The     *)
(* worker's answers are any the network can deliver.                       *)
(***************************************************************************)
\* at most MaxInFlight fetches wait for their answer
MaxInFlight == 3

Fetch(kind, token) == [kind |-> kind, token |-> token]

RemoveAt(list, i) == SubSeq(list, 1, i - 1) \o SubSeq(list, i + 1, Len(list))

\* AdminPanel's render: the spinner while loading, then
\* sessionToken ? <AdminDashboard/> : <AdminLogin/>
Rendered(p) ==
    IF ~p.mounted THEN "nothing"
    ELSE IF p.loading THEN "spinner"
    ELSE IF p.sessionToken # Null /\ p.sessionToken # <<>> THEN "dashboard"
    ELSE "login"

\* AdminPanel.handleLogin
AdminPanel_handleLogin(p, token) == [p EXCEPT !.sessionToken = token]

\* AdminPanel.handleLogout
AdminPanel_handleLogout(p) == [p EXCEPT !.sessionToken = Null, !.stored = Null]

\* a slip: the token is handed to the panel and not stored
AdminLogin_onSuccess_NotStored(p, sessionToken) ==
    AdminPanel_handleLogin(p, sessionToken)

\* AdminLogin.handleSubmit, if (data.success): localStorage.setItem, onLogin
AdminLogin_onSuccess(p, sessionToken) ==
    AdminPanel_handleLogin([p EXCEPT !.stored = sessionToken], sessionToken)

\* AdminPanel's mount effect: a stored token is validated, without one the
\* login form is shown
AdminPanel_mount ==
    /\ pc = "panel"
    /\ ~panel.mounted
    /\ LET token == panel.stored
       IN  panel' = IF token # Null /\ token # <<>>
                    THEN [panel EXCEPT !.mounted = TRUE,
                                       !.inflight = Append(@, Fetch("validate", token))]
                    ELSE [panel EXCEPT !.mounted = TRUE, !.loading = FALSE]
    /\ UNCHANGED <<engine, pc, doc, net, clock, security, gdpr, accessibility, categoryScores,
                   overallScore, recommendations, reports, request, page, sent, response,
                   grades, db, logged, admin>>

\* AdminPanel.validateSession once its fetch is settled: response.ok, another
\* status, or a rejected fetch
validateSession ==
    /\ pc = "panel"
    /\ \E i \in DOMAIN panel.inflight, outcome \in {"ok", "not ok", "rejected"} :
          /\ panel.inflight[i].kind = "validate"
          /\ LET token == panel.inflight[i].token
                 rest  == [panel EXCEPT !.inflight = RemoveAt(@, i), !.loading = FALSE]
             IN  panel' = IF outcome = "ok"
                          THEN [rest EXCEPT !.sessionToken = token, !.last = "validated"]
                          ELSE [rest EXCEPT !.stored = Null, !.last = "validation failed"]
    /\ UNCHANGED <<engine, pc, doc, net, clock, security, gdpr, accessibility, categoryScores,
                   overallScore, recommendations, reports, request, page, sent, response,
                   grades, db, logged, admin>>

\* AdminLogin.handleSubmit up to its fetch: the form is shown and its button
\* is not disabled
AdminLogin_handleSubmit ==
    /\ pc = "panel"
    /\ Rendered(panel) = "login"
    /\ ~panel.submitting
    /\ Len(panel.inflight) < MaxInFlight
    /\ panel' = [panel EXCEPT !.submitting = TRUE,
                              !.inflight = Append(@, Fetch("login", Null))]
    /\ UNCHANGED <<engine, pc, doc, net, clock, security, gdpr, accessibility, categoryScores,
                   overallScore, recommendations, reports, request, page, sent, response,
                   grades, db, logged, admin>>

\* AdminLogin.handleSubmit once its fetch is settled: data.success with a
\* session token, an answer without success, or a rejected fetch
AdminLogin_answered ==
    /\ pc = "panel"
    /\ \E i \in DOMAIN panel.inflight, outcome \in {"success", "no success", "rejected"},
          sessionToken \in SessionTokens :
          /\ panel.inflight[i].kind = "login"
          /\ LET rest == [panel EXCEPT !.inflight = RemoveAt(@, i), !.submitting = FALSE]
             IN  panel' = IF outcome = "success"
                          THEN [AdminLogin_onSuccess(rest, sessionToken)
                                    EXCEPT !.last = "logged in"]
                          ELSE [rest EXCEPT !.last = "login failed"]
    /\ UNCHANGED <<engine, pc, doc, net, clock, security, gdpr, accessibility, categoryScores,
                   overallScore, recommendations, reports, request, page, sent, response,
                   grades, db, logged, admin>>

\* AdminDashboard.fetchAnalytics up to its fetch: the effect of a rendered
\* dashboard
fetchAnalytics ==
    /\ pc = "panel"
    /\ Rendered(panel) = "dashboard"
    /\ Len(panel.inflight) < MaxInFlight
    /\ panel' = [panel EXCEPT !.inflight = Append(@, Fetch("analytics", panel.sessionToken))]
    /\ UNCHANGED <<engine, pc, doc, net, clock, security, gdpr, accessibility, categoryScores,
                   overallScore, recommendations, reports, request, page, sent, response,
                   grades, db, logged, admin>>

\* AdminDashboard.fetchAnalytics once its fetch is settled: 401 calls
\* onLogout, every other outcome stays in the dashboard
fetchAnalytics_answered ==
    /\ pc = "panel"
    /\ \E i \in DOMAIN panel.inflight, status \in {200, 401, 500, 0} :
          /\ panel.inflight[i].kind = "analytics"
          /\ LET rest == [panel EXCEPT !.inflight = RemoveAt(@, i)]
             IN  panel' = IF status = 401
                          THEN [AdminPanel_handleLogout(rest) EXCEPT !.last = "unauthorized"]
                          ELSE [rest EXCEPT !.last = "analytics"]
    /\ UNCHANGED <<engine, pc, doc, net, clock, security, gdpr, accessibility, categoryScores,
                   overallScore, recommendations, reports, request, page, sent, response,
                   grades, db, logged, admin>>

\* AdminDashboard.handleLogout up to its fetch: the Logout button of a
\* rendered dashboard
AdminDashboard_handleLogout ==
    /\ pc = "panel"
    /\ Rendered(panel) = "dashboard"
    /\ Len(panel.inflight) < MaxInFlight
    /\ panel' = [panel EXCEPT !.inflight = Append(@, Fetch("logout", panel.sessionToken))]
    /\ UNCHANGED <<engine, pc, doc, net, clock, security, gdpr, accessibility, categoryScores,
                   overallScore, recommendations, reports, request, page, sent, response,
                   grades, db, logged, admin>>

\* AdminDashboard.handleLogout once its fetch is settled, answered or
\* rejected: finally localStorage.removeItem and onLogout
AdminDashboard_loggedOut ==
    /\ pc = "panel"
    /\ \E i \in DOMAIN panel.inflight :
          /\ panel.inflight[i].kind = "logout"
          /\ LET rest == [panel EXCEPT !.inflight = RemoveAt(@, i), !.stored = Null]
             IN  panel' = [AdminPanel_handleLogout(rest) EXCEPT !.last = "logged out"]
    /\ UNCHANGED <<engine, pc, doc, net, clock, security, gdpr, accessibility, categoryScores,
                   overallScore, recommendations, reports, request, page, sent, response,
                   grades, db, logged, admin>>

\* the page is opened with or without a token left in localStorage
InitAdminPanel ==
    /\ engine = "worker"
    /\ pc = "panel"
    /\ doc = EmptyDoc
    /\ net = NoProbes
    /\ clock = 0
    /\ security = Pending
    /\ gdpr = Pending
    /\ accessibility = Pending
    /\ categoryScores = Pending
    /\ overallScore = 0
    /\ recommendations = <<>>
    /\ reports = <<>>
    /\ request = UrlParam("absent", <<>>)
    /\ page = PageAnswer("response", 200)
    /\ sent = <<>>
    /\ response = Pending
    /\ grades = Pending
    /\ ServerIdle
    /\ panel \in {ClosedPanel(stored) : stored \in {Null} \cup SessionTokens}

NextAdminPanel ==
    \/ AdminPanel_mount
    \/ validateSession
    \/ AdminLogin_handleSubmit
    \/ AdminLogin_answered
    \/ fetchAnalytics
    \/ fetchAnalytics_answered
    \/ AdminDashboard_handleLogout
    \/ AdminDashboard_loggedOut

SpecAdminPanel == InitAdminPanel /\ [][NextAdminPanel]_vars

(***************************************************************************)
(* Claims about the backend security analyzer (checked under SpecSecurity).*)
(***************************************************************************)
\* the signals the design calls obvious: asset directories, the generator
\* meta tag, the admin toolbar, the login form action
ObviousMethodNames ==
    { "wp-content paths", "wp-includes paths", "wp-admin paths", "meta generator",
      "admin bar", "login form action" }

FiredMethods(d) ==
    { detectionMethods(d)[i].method :
        i \in { j \in 1 .. Len(detectionMethods(d)) : detectionMethods(d)[j].detected } }

ObviousFired(d) == FiredMethods(d) \cap ObviousMethodNames # {}
SubtleFired(d)  == FiredMethods(d) \ ObviousMethodNames # {}

SecurityDone == engine = "backend" /\ pc = "gdpr"

\* C5: for every combination of the fourteen signals isHardened is true iff no
\* obvious signal fired and at least one subtle signal fired; a page with only
\* the REST-API link and a pingback link is detected and hardened.
C5_HardenedIffOnlySubtle ==
    SecurityDone =>
        /\ security.isHardened <=> (~ObviousFired(doc) /\ SubtleFired(doc))
        /\ ObviousFired(doc) => ~security.isHardened
        /\ FiredMethods(doc) = {} => ~security.isHardened
        /\ FiredMethods(doc) = {"REST API", "pingback link"} =>
              security.isWordPress /\ security.isHardened

C5_Witness ==
    /\ SecurityDone
    /\ doc.marks = {"link[rel=https://api.w.org/]", "link[rel=pingback]"}
    /\ doc.generator = Undefined /\ doc.assets = <<>>
    /\ security.isWordPress /\ security.isHardened

\* all fourteen signals fired at once: hardened is false
C5_WitnessAllSignals ==
    /\ SecurityDone
    /\ Cardinality(FiredMethods(doc)) = 14
    /\ ~security.isHardened

\* the generator content "WordPress <v>"
GeneratorVersion(d) ==
    IF \E v \in WpVersions : d.generator = <<"WordPress", " ">> \o v
    THEN SubSeq(d.generator, 3, Len(d.generator))
    ELSE Undefined

Contains(list, x) == \E i \in 1 .. Len(list) : list[i] = x

\* C7: with generator content "WordPress <v>" the version is <v> whatever ver=
\* parameters the wp-includes assets carry, the vulnerability list holds every
\* entry of the exact-match table for <v> (for 5.9 the critical one), and
\* isHardened is false.
C7_GeneratorVersionWins ==
    (SecurityDone /\ GeneratorVersion(doc) # Undefined) =>
        LET v == GeneratorVersion(doc)
        IN  /\ security.wordpressVersion = v
            /\ v \in DOMAIN knownVulnerabilities =>
                  \A i \in 1 .. Len(knownVulnerabilities[v]) :
                      Contains(security.vulnerabilities, knownVulnerabilities[v][i])
            /\ v = <<"5", ".", "9">> =>
                  \E i \in 1 .. Len(security.vulnerabilities) :
                      /\ security.vulnerabilities[i].severity = "critical"
                      /\ security.vulnerabilities[i].version = <<"5", ".", "9">>
                      /\ security.vulnerabilities[i].component = <<"WordPress Core">>
            /\ ~security.isHardened

\* generator 5.9 while the first wp-includes asset says ver=6.4
C7_Witness ==
    /\ SecurityDone
    /\ doc.generator = <<"WordPress", " ", "5", ".", "9">>
    /\ Len(doc.assets) >= 1 /\ doc.assets[1] = IncludesScript(<<"6", ".", "4">>)
    /\ security.wordpressVersion = <<"5", ".", "9">>
    /\ Len(security.vulnerabilities) = 2
    /\ ~security.isHardened

(***************************************************************************)
(* Claims about the accessibility analyzers (checked under                 *)
(* SpecAccessibility).                                                     *)
(***************************************************************************)
AccessibilityDone == pc = "score"

\* decorative: role=presentation or alt exactly empty
IsDecorative(img) == img.role = <<"presentation">> \/ img.alt = <<>>

\* alt absent, whitespace-only or one of the meaningless patterns
HasNoUsefulAlt(img) ==
    \/ img.alt = Undefined
    \/ img.alt # Undefined /\ Trim(img.alt) = <<>>
    \/ img.alt # Undefined /\ isMeaninglessAlt(img.alt)

ExpectedMissingAlt(d) ==
    Cardinality({ i \in 1 .. Len(d.images) :
                    ~IsDecorative(d.images[i]) /\ HasNoUsefulAlt(d.images[i]) })

ExampleImages ==
    << Img(Undefined, Undefined), Img(<<"image">>, Undefined),
       Img(<<"Sunset", " ", "over", " ", "the", " ", "lake">>, Undefined) >>

\* C8: missingAltImages is the number of non-decorative images whose alt is
\* absent, whitespace-only or meaningless, in the backend and in the worker; an
\* image with a descriptive alt is never counted, so the three example images
\* give 2.
C8_MissingAltCount ==
    AccessibilityDone =>
        /\ accessibility.missingAltImages = ExpectedMissingAlt(doc)
        /\ doc.images = ExampleImages => accessibility.missingAltImages = 2

\* what the backend alone does
C8_BackendMissingAltCount ==
    (AccessibilityDone /\ engine = "backend") =>
        /\ accessibility.missingAltImages = ExpectedMissingAlt(doc)
        /\ doc.images = ExampleImages => accessibility.missingAltImages = 2

\* what the worker does: every <img> is counted
C8_WorkerCountsEveryImage ==
    (AccessibilityDone /\ engine = "worker") =>
        accessibility.missingAltImages = Len(doc.images)

\* the indices of a set, ascending
RECURSIVE Ascending(_)
Ascending(S) ==
    IF S = {} THEN <<>>
    ELSE LET m == CHOOSE x \in S : \A y \in S : x <= y IN <<m>> \o Ascending(S \ {m})

ExpectedHeadingIssues(hs) ==
    LET n       == Len(hs)
        h1s     == { i \in 1 .. n : hs[i].level = 1 }
        jumps   == Ascending({ i \in 2 .. n : hs[i].level - hs[i - 1].level > 1 })
        empties == Ascending({ i \in 1 .. n : Trim(hs[i].text) = <<>> })
    IN  IF n = 0 THEN << "No headings found on the page" >>
        ELSE (IF Cardinality(h1s) = 0 THEN << "No H1 heading found" >>
              ELSE IF Cardinality(h1s) > 1
                   THEN << "Multiple H1 headings found (" \o ToString(Cardinality(h1s)) \o ")" >>
                   ELSE <<>>)
             \o [k \in 1 .. Len(jumps) |->
                    "Heading level jumps from H" \o ToString(hs[jumps[k] - 1].level)
                        \o " to H" \o ToString(hs[jumps[k]].level)]
             \o [k \in 1 .. Len(empties) |->
                    "Empty H" \o ToString(hs[empties[k]].level) \o " heading found"]

\* C9: checkHeadingHierarchy returns the single issue "No headings found" for
\* a page without headings; otherwise, in this order, one issue iff the number
\* of H1 is 0 or more than 1, one per adjacent pair whose level rises by more
\* than one, one per heading with empty text; h1 then h3 gives exactly the
\* jump from H1 to H3.
C9_HeadingIssues ==
    (AccessibilityDone /\ engine = "backend") =>
        /\ accessibility.headingIssues = ExpectedHeadingIssues(doc.headings)
        /\ doc.headings = <<>> => Len(accessibility.headingIssues) = 1
        /\ doc.headings = << [level |-> 1, text |-> <<"Intro">>],
                             [level |-> 3, text |-> <<"Intro">>] >>
              => accessibility.headingIssues = << "Heading level jumps from H1 to H3" >>

\* h2 (blank), h4, h3: no H1, one jump (the fall h4 -> h3 is not one), one
\* empty heading, in that order
C9_Witness ==
    /\ AccessibilityDone /\ engine = "backend"
    /\ doc.headings = << [level |-> 2, text |-> <<" ">>], [level |-> 4, text |-> <<"Intro">>],
                         [level |-> 3, text |-> <<"Intro">>] >>
    /\ accessibility.headingIssues =
          << "No H1 heading found", "Heading level jumps from H2 to H4",
             "Empty H2 heading found" >>

C9_WitnessExample ==
    /\ AccessibilityDone /\ engine = "backend"
    /\ doc.headings = << [level |-> 1, text |-> <<"Intro">>], [level |-> 3, text |-> <<"Intro">>] >>
    /\ accessibility.headingIssues = << "Heading level jumps from H1 to H3" >>

(***************************************************************************)
(* Claims about the GDPR analyzers (checked under SpecGDPR).               *)
(***************************************************************************)
GDPRDone == gdpr # Pending

DetectedCount(g) == Cardinality({ i \in 1 .. Len(g.trackers) : g.trackers[i].detected })

\* 100 less the penalties of the engine e, kept within 0..100
ExpectedGDPRScore(e, banner, policy, k) ==
    LET missing == IF e = "backend" THEN 40 ELSE 30
        tracked == IF e = "backend" THEN 20 ELSE 5 * k
        raw     == 100 - (IF banner THEN 0 ELSE missing) - (IF policy THEN 0 ELSE missing)
                       - (IF k >= 1 /\ ~banner THEN tracked ELSE 0)
    IN  IF raw < 0 THEN 0 ELSE IF raw > 100 THEN 100 ELSE raw

\* C10: the GDPR score is 100 minus the missing-banner penalty, minus the
\* missing-policy penalty, minus the tracker penalty taken iff a tracker is
\* detected and there is no banner, clamped to 0..100 (backend 40/40/20, worker
\* 30/30/5 per tracker); trackers without a banner score strictly lower than
\* the same findings without trackers, and with a banner trackers cost nothing.
C10_GDPRScoreFormula ==
    GDPRDone =>
        LET k == DetectedCount(gdpr)
            b == gdpr.hasCookieBanner
            p == gdpr.hasPrivacyPolicy
        IN  /\ gdpr.score = ExpectedGDPRScore(engine, b, p, k)
            /\ (k >= 1 /\ ~b) => gdpr.score < ExpectedGDPRScore(engine, b, p, 0)
            /\ b => gdpr.score = ExpectedGDPRScore(engine, b, p, 0)

\* backend: a tracker, no banner, a privacy policy: 100 - 40 - 20
C10_Witness ==
    /\ GDPRDone /\ engine = "backend"
    /\ DetectedCount(gdpr) >= 1 /\ ~gdpr.hasCookieBanner /\ gdpr.hasPrivacyPolicy
    /\ gdpr.score = 40

\* worker: two trackers, no banner, no policy: 100 - 30 - 30 - 10
C10_WitnessWorker ==
    /\ GDPRDone /\ engine = "worker"
    /\ DetectedCount(gdpr) = 2 /\ ~gdpr.hasCookieBanner /\ ~gdpr.hasPrivacyPolicy
    /\ gdpr.score = 30

\* a tracker behind a banner costs nothing
C10_WitnessBanner ==
    /\ GDPRDone /\ DetectedCount(gdpr) >= 1 /\ gdpr.hasCookieBanner /\ gdpr.hasPrivacyPolicy
    /\ gdpr.score = 100

(***************************************************************************)
(* Claims about whole requests (checked under SpecAnalysis).               *)
(***************************************************************************)
Categories == {"security", "gdpr", "accessibility"}

\* C3: in every produced report each of the three category scores is an
\* integer in 0..100, whatever penalties and bonuses were triggered and however
\* many vulnerabilities, images, headings or controls the page has, in the
\* backend and in the worker.
C3_CategoryScoresInRange ==
    /\ \A i \in 1 .. Len(reports) :
          /\ \A c \in Categories : reports[i].categoryScores[c] \in 0 .. 100
          /\ reports[i].security.score \in 0 .. 100
          /\ reports[i].gdpr.score \in 0 .. 100
          /\ reports[i].accessibility.score \in 0 .. 100
    /\ security # Pending => security.score \in 0 .. 100
    /\ gdpr # Pending => gdpr.score \in 0 .. 100
    /\ accessibility # Pending => accessibility.score \in 0 .. 100

\* backend: the hardened bonus capped at 100 and every accessibility penalty
\* at its cap on a page of MaxRepeat faulty images, headings and inputs
C3_Witness ==
    /\ engine = "backend" /\ Len(reports) = 1
    /\ reports[1].security.isHardened /\ reports[1].categoryScores.security = 100
    /\ Len(doc.images) = MaxRepeat /\ Len(doc.controls) = MaxRepeat
    /\ reports[1].categoryScores.accessibility = 0

\* worker: no valid certificate, no headers, four console warnings and two
\* vulnerabilities
C3_WitnessWorker ==
    /\ engine = "worker" /\ Len(reports) = 1
    /\ ~reports[1].security.sslCertificate.isValid
    /\ reports[1].security.securityHeaders.score < 0
    /\ Len(reports[1].security.vulnerabilities) = 2
    /\ reports[1].categoryScores.security = 0

RecommendationsDone == pc \in {"return", "done"}

SeverityRank(r) ==
    CASE r.severity = "critical" -> 4 [] r.severity = "high" -> 3
      [] r.severity = "medium" -> 2 [] r.severity = "low" -> 1

\* the entries in the order the rules appended them
AppendedRules ==
    IF engine = "backend" THEN BackendRules(security, gdpr, accessibility)
    ELSE WorkerRules(security, gdpr, accessibility)

\* C4: the recommendations are sorted by descending severity rank
\* (critical 4, high 3, medium 2, low 1), and entries of equal severity keep
\* the order in which the rules appended them, in the backend and the worker.
C4_SortedStable ==
    RecommendationsDone =>
        LET recs   == recommendations
            rules  == AppendedRules
            pos(r) == CHOOSE k \in 1 .. Len(rules) : rules[k] = r
        IN  /\ \A i \in 1 .. Len(recs) - 1 : SeverityRank(recs[i]) >= SeverityRank(recs[i + 1])
            /\ Len(recs) = Len(rules)
            /\ \A k \in 1 .. Len(rules) : \E i \in 1 .. Len(recs) : recs[i] = rules[k]
            /\ \A i, j \in 1 .. Len(recs) :
                  (i < j /\ SeverityRank(recs[i]) = SeverityRank(recs[j]))
                      => pos(recs[i]) < pos(recs[j])

\* backend, not WordPress, no banner, no policy, images and headings at fault:
\* the medium entry appended first moves behind the two high ones and stays
\* ahead of the other medium ones
C4_Witness ==
    /\ RecommendationsDone /\ engine = "backend"
    /\ [i \in 1 .. Len(AppendedRules) |-> AppendedRules[i].severity]
          = <<"medium", "high", "high", "medium", "medium">>
    /\ [i \in 1 .. Len(recommendations) |-> recommendations[i].title]
          = <<"Missing Cookie Banner", "Missing Privacy Policy", "WordPress Not Detected",
              "Images Missing Alt Text", "Heading Structure Issues">>

\* worker: a critical entry, high entries of two rules, medium entries
C4_WitnessWorker ==
    /\ RecommendationsDone /\ engine = "worker"
    /\ [i \in 1 .. Len(recommendations) |-> recommendations[i].severity]
          = <<"critical", "high", "high", "high", "medium", "medium">>

(***************************************************************************)
(* Claims about repeated requests (checked under SpecPipeline).            *)
(***************************************************************************)
WithoutTimestamp(r) == [r EXCEPT !.timestamp = 0]

\* the worker's reports without the time of each reputation check either
WithoutCheckTimes(r) ==
    IF engine = "worker"
    THEN [WithoutTimestamp(r) EXCEPT
            !.security.reputationChecks =
                [k \in 1 .. Len(@) |-> [@[k] EXCEPT !.lastChecked = 0]]]
    ELSE WithoutTimestamp(r)

\* C6 as stated: two analyses of the same page and probe answers give
\* reports equal in every field but the top-level timestamp, in the backend and
\* in the worker.
C6_EqualButTimestamp ==
    \A i, j \in 1 .. Len(reports) : WithoutTimestamp(reports[i]) = WithoutTimestamp(reports[j])

\* C6 amended: the reports are equal in every field but the top-level
\* timestamp and, in the worker, the lastChecked of each reputation check; the
\* backend's reports differ in the timestamp alone.
C6_EqualButTimes ==
    \A i, j \in 1 .. Len(reports) : WithoutCheckTimes(reports[i]) = WithoutCheckTimes(reports[j])

\* two worker reports of the same page taken at different times
C6_Witness ==
    /\ engine = "worker" /\ Len(reports) = 2
    /\ reports[1].timestamp < reports[2].timestamp
    /\ reports[1].security.reputationChecks # reports[2].security.reputationChecks
    /\ reports[1].recommendations = reports[2].recommendations
    /\ Len(reports[1].gdpr.trackers) = 6

\* two backend reports of the same page taken at different times
C6_WitnessBackend ==
    /\ engine = "backend" /\ Len(reports) = 2
    /\ reports[1].timestamp < reports[2].timestamp
    /\ WithoutTimestamp(reports[1]) = WithoutTimestamp(reports[2])

(***************************************************************************)
(* Claims about the score aggregator (checked under SpecScore).            *)
(***************************************************************************)
\* round-half-up of (num / den), num >= 0
RoundHalfUp(num, den) == (2 * num + den) \div (2 * den)

C1_RangeAndBackendExact ==
    pc = "recommend" =>
        /\ overallScore \in 0 .. 100
        /\ engine = "backend" =>
             overallScore = RoundHalfUp(2 * categoryScores.security + categoryScores.gdpr
                                          + categoryScores.accessibility, 4)
        /\ engine = "worker" =>
             LET n == 4 * categoryScores.security + 3 * categoryScores.gdpr
                        + 3 * categoryScores.accessibility
             IN  \/ overallScore = RoundHalfUp(n, 10)
                 \/ n % 10 = 5 /\ overallScore = RoundHalfUp(n, 10) - 1

\* C2: every overall score weights security 50%, GDPR 25%, accessibility 25%
\* in both entry points, so 90/80/70 gives 83 and grade B.
C2_Weights50_25_25 ==
    pc = "recommend" =>
        /\ overallScore = RoundHalfUp(2 * categoryScores.security + categoryScores.gdpr
                                        + categoryScores.accessibility, 4)
        /\ categoryScores = [security |-> 90, gdpr |-> 80, accessibility |-> 70] =>
             overallScore = 83 /\ getScoreGrade(overallScore) = "B"

\* What the backend alone does with the example of C2.
C2_BackendExample ==
    (pc = "recommend" /\ engine = "backend"
       /\ categoryScores = [security |-> 90, gdpr |-> 80, accessibility |-> 70]) =>
        overallScore = 83 /\ getScoreGrade(overallScore) = "B"


(***************************************************************************)
(* Claims about the trackers list.                                         *)
(***************************************************************************)
BackendCatalog ==
    << "Google Analytics", "Meta Pixel", "Google Tag Manager",
       "LinkedIn Insight", "Twitter Pixel", "Hotjar" >>

WorkerCatalog ==
    << "Google Analytics", "Facebook Pixel", "Google Tag Manager",
       "Google Ads", "Twitter", "LinkedIn" >>

\* for each catalogue position, whether one of its signatures matches the page
SignatureMatches ==
    IF engine = "backend"
    THEN LET pageContent == Html(doc)
         IN  [k \in 1 .. 6 |-> \E pattern \in trackerPatterns[k].patterns :
                                   Test(pageContent, pattern)]
    ELSE LET found == WorkerTrackers(LowerCase(Html(doc)))
         IN  [k \in 1 .. 6 |-> found[k].detected]

\* C11: the trackers list of every GDPR result has exactly one entry per
\* catalogue tracker, in catalogue order, each with detected set to whether
\* one of its signatures matches the page; an undetected tracker is listed
\* with detected = FALSE, so the list always has six entries, in the backend
\* and in the worker.
C11_TrackersComplete ==
    GDPRDone =>
        LET catalog == IF engine = "backend" THEN BackendCatalog ELSE WorkerCatalog
            matches == SignatureMatches
        IN  /\ Len(gdpr.trackers) = 6
            /\ \A k \in 1 .. 6 :
                  /\ gdpr.trackers[k].name = catalog[k]
                  /\ gdpr.trackers[k].detected \in BOOLEAN
                  /\ gdpr.trackers[k].detected <=> matches[k]

\* backend: a page on which some tracker is found and some other is not
C11_Witness ==
    /\ GDPRDone
    /\ engine = "backend"
    /\ Len(gdpr.trackers) = 6
    /\ \E k \in 1 .. Len(gdpr.trackers) : gdpr.trackers[k].detected
    /\ \E k \in 1 .. Len(gdpr.trackers) : ~gdpr.trackers[k].detected

\* worker: a page with no tracker at all still lists the six of them
C11_WitnessWorkerNone ==
    /\ GDPRDone
    /\ engine = "worker"
    /\ Len(gdpr.trackers) = 6
    /\ \A k \in 1 .. Len(gdpr.trackers) : ~gdpr.trackers[k].detected


(***************************************************************************)
(* Claims about the neutral security score.                                *)
(***************************************************************************)
\* findings calculateSecurityScore could be handed along with isWordPress = FALSE
SampleVulnerabilities ==
    { <<>>,
      knownVulnerabilities[<<"5", ".", "9">>],
      checkVulnerabilities(<<"6", ".", "0">>, <<>>, <<>>),
      checkVulnerabilities(<<"5", ".", "9">>,
                           << [slug |-> <<"old-vulnerable-plugin">>,
                               name |-> <<"Old Vulnerable Plugin">>,
                               version |-> Undefined] >>, <<>>) }

\* C12: when no detection signal fires (isWordPress = FALSE) the security
\* score returned by SecurityAnalyzer.analyze is exactly 50, whatever the
\* other findings (vulnerabilities, version, hardened flag) are.
C12_NeutralScore ==
    (SecurityDone /\ ~security.isWordPress) =>
        /\ security.score = 50
        /\ \A vulnerabilities \in SampleVulnerabilities,
              version \in WpVersions \cup {Undefined},
              isHardened \in BOOLEAN :
                calculateSecurityScore(security.isWordPress, vulnerabilities,
                                       version, isHardened) = 50

\* an undetected page that still has a generator and an asset under wp-content
C12_Witness ==
    /\ SecurityDone
    /\ ~security.isWordPress
    /\ security.score = 50
    /\ doc.generator # Undefined
    /\ \E i \in 1 .. Len(doc.assets) : HasPath(doc.assets[i].url, "uploads")


(***************************************************************************)
(* Claims about the request handlers (checked under SpecRequest).          *)
(***************************************************************************)
\* the url parameter is missing: absent, or given as the empty string
UrlMissing == request.kind = "absent" \/ (request.kind = "string" /\ request.value = <<>>)

\* the url parameter is a string that is not a URL: no scheme, or no host
UrlUnparseable ==
    /\ request.kind = "string"
    /\ request.value \in { <<"example.com">>, <<"http:", "//">> }

\* C13: a GET /api/analyze whose url parameter is missing is answered 400
\* 'URL parameter is required', one whose url cannot be parsed as a URL is
\* answered 400 'Invalid URL format', and for neither is a request (page fetch
\* or HEAD probe) ever sent to the target; in the Express route and in the
\* worker.
C13_InvalidUrlRejected ==
    (UrlMissing \/ UrlUnparseable) =>
        /\ sent = <<>>
        /\ pc \in {"request", "responded"}
        /\ pc = "request" => response = Pending
        /\ pc = "responded" =>
              /\ response.status = 400
              /\ response.body = <<>>
              /\ response.error = IF UrlMissing THEN "URL parameter is required"
                                  ELSE "Invalid URL format"

\* a url without a scheme has been turned down by the worker
C13_Witness ==
    /\ engine = "worker"
    /\ request = UrlParam("string", <<"example.com">>)
    /\ pc = "responded"
    /\ response.status = 400
    /\ response.error = "Invalid URL format"
    /\ sent = <<>>

\* a request without the parameter has been turned down by the Express route
C13_WitnessMissing ==
    /\ engine = "backend"
    /\ request.kind = "absent"
    /\ pc = "responded"
    /\ response.status = 400
    /\ response.error = "URL parameter is required"
    /\ sent = <<>>


\* the page fetch has been issued and the target answers it with a status
\* outside 200..299
PageNon2xx ==
    /\ sent # <<>>
    /\ page.outcome = "response"
    /\ page.status \notin 200 .. 299

\* the request ended with the 'Failed to analyze website' answer and no report
FailedToAnalyze ==
    /\ pc = "responded"
    /\ response.status = 500
    /\ response.error = "Failed to analyze website"
    /\ response.body = <<>>
    /\ reports = <<>>

\* C14: if the fetch of the target page returns a non-2xx status, the
\* analysis fails with the 'Failed to analyze website' condition and no report
\* is produced or returned, in the backend and in the worker.
C14_Non2xxFails ==
    (PageNon2xx /\ pc # "fetch") => FailedToAnalyze

\* C14, worker only: analyzeWebsite throws on every non-2xx answer.
C14_WorkerNon2xxFails ==
    (engine = "worker" /\ PageNon2xx /\ pc # "fetch") => FailedToAnalyze

\* C14, backend: only the answers with a status of 500 or more fail.
C14_Backend5xxFails ==
    (engine = "backend" /\ PageNon2xx /\ page.status >= 500 /\ pc # "fetch") => FailedToAnalyze

\* the backend has answered 200 with a report on a page that came with a 404
C14_BackendReports404 ==
    /\ engine = "backend"
    /\ page = PageAnswer("response", 404)
    /\ pc = "responded"
    /\ response.status = 200
    /\ Len(response.body) = 1

\* the worker has failed a request whose page came with a 404
C14_WorkerFails404 ==
    /\ engine = "worker"
    /\ page = PageAnswer("response", 404)
    /\ FailedToAnalyze


(***************************************************************************)
(* Claims about the worker's HEAD probes (checked under SpecRequest).      *)
(***************************************************************************)
\* the worker's security analyzer has returned
WorkerSecurityDone == engine = "worker" /\ security # Pending

SslProbeFailed     == net.https /\ net.sslHead \in {"throws", "notok"}
HeadersProbeThrew  == net.headersHead = "throws"
HeadersProbeFailed == net.headersHead \in {"throws", "notok"}

\* headers deemed absent: the six flags false and the sub-score 0
HeadersAbsent ==
    /\ \A f \in DOMAIN security.securityHeaders.flags : ~security.securityHeaders.flags[f]
    /\ security.securityHeaders.score = 0

\* once the page is fetched the request ends with a complete report
ProbesNeverAbort ==
    (engine = "worker" /\ pc = "responded" /\ sent # <<>> /\ workerFetch(page).settled = "resolved")
        => /\ response.status = 200
           /\ Len(response.body) = 1
           /\ response.body[1].security = security
           /\ response.body[1].gdpr # Pending
           /\ response.body[1].accessibility # Pending

\* C15: in the worker a thrown error or a non-ok answer of the HEAD probe of
\* analyzeSSLCertificate or of analyzeSecurityHeaders only degrades that
\* sub-result (isValid = FALSE; the six header flags false and sub-score 0)
\* and never leaves analyzeSecurityWorker: once the page fetch has succeeded
\* analyzeWebsite returns a complete report.
C15_ProbeFailureDegrades ==
    /\ WorkerSecurityDone =>
          /\ SslProbeFailed => ~security.sslCertificate.isValid
          /\ HeadersProbeFailed => HeadersAbsent
    /\ ProbesNeverAbort

\* C15 without the headers probe's non-ok answers: what holds of the worker.
C15_ThrownProbeDegrades ==
    /\ WorkerSecurityDone =>
          /\ SslProbeFailed => ~security.sslCertificate.isValid
          /\ HeadersProbeThrew => HeadersAbsent
    /\ ProbesNeverAbort

\* a report has been returned although both probes threw
C15_WitnessBothThrow ==
    /\ engine = "worker"
    /\ net.https /\ net.sslHead = "throws" /\ net.headersHead = "throws"
    /\ pc = "responded"
    /\ response.status = 200
    /\ ~response.body[1].security.sslCertificate.isValid

\* the headers probe was answered with a non-ok status and a header, and the
\* header is reported as present
C15_NonOkHeadersRead ==
    /\ WorkerSecurityDone
    /\ net.headersHead = "notok"
    /\ security.securityHeaders.flags.xFrameOptions

\* the headers probe was answered with a non-ok status and no header, and the
\* sub-score is below 0
C15_NonOkHeadersNegative ==
    /\ WorkerSecurityDone
    /\ net.headersHead = "notok"
    /\ net.headers = {}
    /\ security.securityHeaders.score = -5


(***************************************************************************)
(* Claims about probes and fetches that never answer (checked under        *)
(* SpecRequestLive).                                                       *)
(***************************************************************************)
\* the worker's security analyzer is started
WorkerSecurityStarted == engine = "worker" /\ pc = "security"

\* the request has been answered with a report
ReportReturned == pc = "responded" /\ response.status = 200 /\ Len(response.body) = 1

\* C16: in the worker, when a HEAD probe of analyzeSSLCertificate or of
\* analyzeSecurityHeaders never answers, a timeout cuts the probe off and puts
\* its degraded default in its place, so analyzeSecurityWorker and the whole
\* analysis still eventually complete.
C16_HangingProbeCompletes ==
    (WorkerSecurityStarted /\ ProbeHangs(net)) ~> ReportReturned

\* C16 for probes that answer or throw: the analysis completes.
C16_SettlingProbesComplete ==
    (WorkerSecurityStarted /\ ~ProbeHangs(net)) ~> ReportReturned

\* the worker waits on a probe that never answers: no step is left to take
C16_WaitingOnProbe ==
    /\ engine = "worker"
    /\ pc = "probing"
    /\ security = Pending
    /\ response = Pending
    /\ ~ENABLED NextRequest


\* the fetch of the page has been issued and never completes
PageFetchHangs == pc = "fetch" /\ page.outcome = "hangs"

\* C17: if the top-level fetch of the target page never completes, the
\* analysis eventually fails as a whole with a reported error and returns no
\* partial report, in the backend (axios.get) and in the worker (fetch).
C17_HangingFetchFails == PageFetchHangs ~> FailedToAnalyze

\* C17, backend only: axios gives up after its timeout of 15000 ms.
C17_BackendHangingFetchFails ==
    (engine = "backend" /\ PageFetchHangs) ~> (FailedToAnalyze /\ sent = <<"GET">>)

\* the worker waits on a page fetch that never completes: no step is left to
\* take and nothing has been answered
C17_WorkerWaitingOnFetch ==
    /\ engine = "worker"
    /\ PageFetchHangs
    /\ response = Pending
    /\ ~ENABLED NextRequest


(***************************************************************************)
(* Claims about the order of the analyzers (checked under SpecAnyOrder).   *)
(***************************************************************************)
\* what the orchestrator's three calls, made one after the other on the fetched
\* page at the time of the request, return
SequentialResults(d, n, now) ==
    IF engine = "backend"
    THEN [security      |-> SecurityAnalyzer_analyze(d),
          gdpr          |-> GDPRAnalyzer_analyze(d),
          accessibility |-> AccessibilityAnalyzer_analyze(d)]
    ELSE [security      |-> analyzeSecurityWorker(d, n, <<now, now, now>>),
          gdpr          |-> analyzeGDPRWorker(d),
          accessibility |-> analyzeAccessibilityWorker(d)]

\* the overall score and the recommendations the orchestrator derives from them
SequentialOutcome(r) ==
    LET cs == [security |-> r.security.score, gdpr |-> r.gdpr.score,
               accessibility |-> r.accessibility.score]
    IN  IF engine = "backend"
        THEN [overallScore    |-> ScoreCalculator_calculateOverallScore(cs),
              recommendations |-> WordPressAnalyzer_generateRecommendations(
                                      r.security, r.gdpr, r.accessibility)]
        ELSE [overallScore    |-> calculateOverallScore(cs),
              recommendations |-> generateRecommendations(r.security, r.gdpr, r.accessibility)]

C18_WitnessReport ==
    /\ engine = "backend"
    /\ Len(reports) = 1
    /\ reports[1].recommendations # <<>>


(***************************************************************************)
(* Claims about the letter grades (checked under SpecGrade).               *)
(***************************************************************************)
\* A for 90 and more, B for 80..89, C for 70..79, D for 60..69, F below 60
GradeTable(score) ==
    CASE score \in 90 .. 100 -> "A"
      [] score \in 80 .. 89  -> "B"
      [] score \in 70 .. 79  -> "C"
      [] score \in 60 .. 69  -> "D"
      [] score \in 0 .. 59   -> "F"

\* C19: for every integer score in 0..100 the grade is A for score >= 90, B
\* for 80..89, C for 70..79, D for 60..69 and F below 60, and the three grade
\* functions (ScoreCalculator.getScoreGrade, ScoreCard's and SimpleApp's
\* getScoreGrade) return the same grade for every score.
C19_GradesAgree ==
    /\ \A score \in 0 .. 100 :
          /\ getScoreGrade(score) = GradeTable(score)
          /\ ScoreCard_getScoreGrade(score) = getScoreGrade(score)
          /\ SimpleApp_getScoreGrade(score) = getScoreGrade(score)
    /\ grades # Pending =>
          /\ grades.scoreCard = GradeTable(overallScore)
          /\ grades.simpleApp.overall = grades.scoreCard
          /\ grades.simpleApp.security = GradeTable(categoryScores.security)
          /\ grades.simpleApp.gdpr = GradeTable(categoryScores.gdpr)
          /\ grades.simpleApp.accessibility = GradeTable(categoryScores.accessibility)

\* a report with an overall score of 90 is shown with an A, next to a D for
\* a category score of 60 and a B for one of 89
C19_Witness ==
    /\ grades # Pending
    /\ overallScore = 90
    /\ grades.scoreCard = "A"
    /\ grades.simpleApp.overall = "A"
    /\ categoryScores.gdpr = 60 /\ grades.simpleApp.gdpr = "D"
    /\ categoryScores.accessibility = 89 /\ grades.simpleApp.accessibility = "B"


(***************************************************************************)
(* Claims about the outdated-version rule (checked under SpecSecurity).    *)
(***************************************************************************)
\* major and minor of a version string major.minor[.patch], and the number of
\* digits of the minor
VersionParts(v) ==
    LET n1 == RunLen(v, 1, Digits)
        n2 == RunLen(v, n1 + 2, Digits)
    IN  [major |-> DigitsValue(SubSeq(v, 1, n1)),
         minor |-> DigitsValue(SubSeq(v, n1 + 2, n1 + 1 + n2)),
         minorDigits |-> n2]

\* below 6.4 in version order: the major first, then the minor as a number
BelowFloor(v) ==
    LET p == VersionParts(v)
    IN  p.major < 6 \/ (p.major = 6 /\ p.minor < 4)

\* below 6.4 with major.minor read as a decimal fraction, as parseFloat does
BelowFloorAsDecimal(v) ==
    LET p == VersionParts(v)
    IN  (p.major * 10 ^ p.minorDigits + p.minor) * 10 < 64 * 10 ^ p.minorDigits

\* the 'outdated' finding is among the vulnerabilities of the result
FlaggedOutdated ==
    \E i \in 1 .. Len(security.vulnerabilities) :
        /\ security.vulnerabilities[i].severity = "high"
        /\ security.vulnerabilities[i].component = <<"WordPress Core">>
        /\ security.vulnerabilities[i].version = security.wordpressVersion
        /\ security.vulnerabilities[i].description =
              "WordPress version is outdated and may contain security vulnerabilities"

VersionDetected == SecurityDone /\ Truthy(security.wordpressVersion)

\* C20: for every detected version major.minor[.patch], checkVulnerabilities
\* adds the 'outdated' high-severity vulnerability if and only if the version
\* is below 6.4 in version order (major first, then minor as a number): 5.9
\* and 6.3.9 are flagged, 6.4, 6.4.1 and 6.10 are not.
C20_OutdatedBelowFloor ==
    VersionDetected => (FlaggedOutdated <=> BelowFloor(security.wordpressVersion))

\* C20 with the version read as a decimal fraction: what checkVulnerabilities does.
C20_OutdatedAsDecimal ==
    VersionDetected => (FlaggedOutdated <=> BelowFloorAsDecimal(security.wordpressVersion))

\* WordPress 6.10 has been analysed and is flagged as outdated
C20_Flags610 ==
    /\ VersionDetected
    /\ security.wordpressVersion = <<"6", ".", "1", "0">>
    /\ FlaggedOutdated

\* 6.3.9 is flagged and 6.4.1 is not
C20_Flags639 ==
    /\ VersionDetected
    /\ security.wordpressVersion = <<"6", ".", "3", ".", "9">>
    /\ FlaggedOutdated

C20_Passes641 ==
    /\ VersionDetected
    /\ security.wordpressVersion = <<"6", ".", "4", ".", "1">>
    /\ ~FlaggedOutdated


(***************************************************************************)
(* Claims about the worker's header sub-score (checked under SpecRequest). *)
(***************************************************************************)
\* the headers probe was answered with an ok status
HeadersProbeOk == WorkerSecurityDone /\ net.headersHead = "ok"

\* k: how many of the six security headers the answer carries (feature-policy
\* stands in for permissions-policy)
HeadersPresent ==
    Cardinality({ h \in net.headers \ {"feature-policy"} : TRUE })
    + (IF "feature-policy" \in net.headers /\ "permissions-policy" \notin net.headers
       THEN 1 ELSE 0)

\* C21: on a successful HEAD probe the header sub-score is round(k/6 * 30)
\* for k of the six security headers present: 5 points per present header,
\* 0 with none, 30 with all six, and never negative.
C21_HeaderSubScore ==
    HeadersProbeOk
        => /\ security.securityHeaders.score = 5 * HeadersPresent
           /\ security.securityHeaders.score >= 0

\* what analyzeSecurityHeaders computes: one header less than present is
\* counted, 5 points for each
C21_HeaderSubScoreOneLess ==
    HeadersProbeOk => security.securityHeaders.score = 5 * (HeadersPresent - 1)

\* an ok answer without any security header gives a sub-score of -5
C21_NoHeaderNegative ==
    /\ HeadersProbeOk
    /\ HeadersPresent = 0
    /\ security.securityHeaders.score = -5

\* an ok answer with all six headers gives 25, not 30
C21_AllHeadersTwentyFive ==
    /\ HeadersProbeOk
    /\ HeadersPresent = 6
    /\ security.securityHeaders.score = 25


(***************************************************************************)
(* Claims about the detection label (checked under SpecSecurity).          *)
(***************************************************************************)
\* the names in a label are those of the signals that fired in a table, each
\* once, in table order
LabelListsFired(via, table) ==
    LET firedAt == { i \in 1 .. Len(table) : table[i].detected }
        place(name) == CHOOSE i \in 1 .. Len(table) : table[i].method = name
    IN  /\ { via[i] : i \in 1 .. Len(via) } = { table[i].method : i \in firedAt }
        /\ Len(via) = Cardinality(firedAt)
        /\ \A i \in 1 .. Len(via) - 1 : place(via[i]) < place(via[i + 1])

\* C22: detectWordPress returns isWordPress = true if and only if at least one
\* signal fires; the label is 'Not detected' if and only if none fires,
\* otherwise it begins with 'Hardened' exactly when isHardened is true and
\* with 'Standard' otherwise, and it lists the method names of exactly the
\* signals that fired, in table order.
C22_DetectionLabel ==
    SecurityDone =>
        LET table == detectionMethods(doc)
            fired == \E i \in 1 .. Len(table) : table[i].detected
        IN  /\ security.isWordPress <=> fired
            /\ security.detectionMethod.label = "Not detected" <=> ~fired
            /\ fired =>
                  security.detectionMethod.label =
                     (IF security.isHardened THEN "Hardened WordPress"
                      ELSE "Standard WordPress")
            /\ LabelListsFired(security.detectionMethod.via, table)

\* a standard site with an obvious and two subtle signals: the label names
\* the three of them, in table order
C22_Witness ==
    /\ SecurityDone
    /\ security.isWordPress /\ ~security.isHardened
    /\ security.detectionMethod.label = "Standard WordPress"
    /\ security.detectionMethod.via = <<"wp-content paths", "pingback link", "shortlink">>

\* a hardened site, and a page on which no signal fires
C22_WitnessHardened ==
    /\ SecurityDone
    /\ security.isHardened
    /\ security.detectionMethod.label = "Hardened WordPress"
    /\ security.detectionMethod.via = <<"body classes", "REST API">>

C22_WitnessNotDetected ==
    /\ SecurityDone
    /\ ~security.isWordPress
    /\ security.detectionMethod = [label |-> "Not detected", via |-> <<>>]


(***************************************************************************)
(* Claims about missing ARIA labels (checked under SpecAccessibility).     *)
(***************************************************************************)
\* an attribute or text that is present with a value that is not blank
Named(attr) == attr # Undefined /\ attr # <<>> /\ \E i \in 1 .. Len(attr) : attr[i] # " "

\* an attribute that is present with a value
Present(attr) == attr # Undefined /\ attr # <<>>

\* the controls of the page that lack an accessible name: form inputs other
\* than hidden, submit and button ones without label, aria-label and
\* aria-labelledby; buttons without text, aria-label and aria-labelledby;
\* links without text, aria-label, aria-labelledby and title
Unnamed ==
    { i \in 1 .. Len(doc.controls) :
        LET el == doc.controls[i]
        IN  \/ /\ el.tag \in {"input", "textarea", "select"}
               /\ el.type \notin { <<"hidden">>, <<"submit">>, <<"button">> }
               /\ ~(el.id # Undefined /\ el.id \in doc.labelsFor)
               /\ ~Named(el.ariaLabel) /\ ~Named(el.ariaLabelledby)
            \/ /\ el.tag = "button"
               /\ ~Named(el.text) /\ ~Present(el.ariaLabel) /\ ~Present(el.ariaLabelledby)
            \/ /\ el.tag = "a"
               /\ ~Named(el.text) /\ ~Present(el.ariaLabel) /\ ~Present(el.ariaLabelledby)
               /\ ~Present(el.title) }

\* C23: missingAriaLabels is the number of form inputs (not hidden, submit or
\* button) with no label for their id, no non-empty aria-label and no
\* non-empty aria-labelledby, plus the buttons with no text, aria-label or
\* aria-labelledby, plus the links with no text, aria-label, aria-labelledby
\* or title; this holds for the backend and for the worker.
C23_MissingAriaLabels ==
    AccessibilityDone => accessibility.missingAriaLabels = Cardinality(Unnamed)

\* C23 for the backend's checkMissingAriaLabels alone
C23_BackendMissingAriaLabels ==
    (AccessibilityDone /\ engine = "backend")
        => accessibility.missingAriaLabels = Cardinality(Unnamed)

\* the backend has counted an unlabeled input and an empty link
C23_BackendCounts ==
    /\ AccessibilityDone /\ engine = "backend"
    /\ doc.controls = << Control("input", <<"text">>, <<"q">>, Undefined, Undefined, Undefined, <<>>),
                         Control("a", Undefined, Undefined, Undefined, Undefined, Undefined, <<>>) >>
    /\ doc.labelsFor = {}
    /\ accessibility.missingAriaLabels = 2

\* the same input with a <label for="q"> is not counted
C23_BackendLabelled ==
    /\ AccessibilityDone /\ engine = "backend"
    /\ doc.controls = << Control("input", <<"text">>, <<"q">>, Undefined, Undefined, Undefined, <<>>),
                         Control("input", <<"hidden">>, Undefined, Undefined, Undefined, Undefined, <<>>) >>
    /\ doc.labelsFor = { <<"q">> }
    /\ accessibility.missingAriaLabels = 0

\* the worker counts a hidden input and a button that shows its text
C23_WorkerCountsHidden ==
    /\ AccessibilityDone /\ engine = "worker"
    /\ doc.controls = << Control("input", <<"hidden">>, Undefined, Undefined, Undefined, Undefined, <<>>),
                         Control("button", Undefined, Undefined, Undefined, Undefined, Undefined, <<"Go">>) >>
    /\ accessibility.missingAriaLabels = 2

\* the worker leaves an empty link out and counts an input that a
\* <label for> names
C23_WorkerSkipsLinks ==
    /\ AccessibilityDone /\ engine = "worker"
    /\ doc.controls = << Control("a", Undefined, Undefined, Undefined, Undefined, Undefined, <<>>),
                         Control("input", <<"text">>, <<"q">>, Undefined, Undefined, Undefined, <<>>) >>
    /\ doc.labelsFor = { <<"q">> }
    /\ accessibility.missingAriaLabels = 1


(***************************************************************************)
(* Claims about the backend's recommendation rules (checked under          *)
(* SpecAnalysis).                                                          *)
(***************************************************************************)
BackendRecommended == RecommendationsDone /\ engine = "backend"

\* the entries of the list with a title and a severity
Entries(title, severity) ==
    { i \in 1 .. Len(recommendations) :
        recommendations[i].title = title /\ recommendations[i].severity = severity }

\* the rules of the backend: severity, title and whether the rule is triggered
RuleTable ==
    << <<"medium", "WordPress Not Detected", ~security.isWordPress>>,
       <<"low", "Excellent Security Hardening", security.isHardened>>,
       <<"critical", "Critical Security Vulnerabilities Found",
         \E i \in 1 .. Len(security.vulnerabilities) :
             security.vulnerabilities[i].severity = "critical">>,
       <<"high", "Missing Cookie Banner", ~gdpr.hasCookieBanner>>,
       <<"high", "Missing Privacy Policy", ~gdpr.hasPrivacyPolicy>>,
       <<"medium", "Images Missing Alt Text", accessibility.missingAltImages > 0>>,
       <<"medium", "Heading Structure Issues", accessibility.headingIssues # <<>> >> >>

\* C24: the backend's generateRecommendations emits exactly one entry per
\* triggered rule and none for an untriggered one (not detected, hardened,
\* critical vulnerabilities whatever their number, no cookie banner, no
\* privacy policy, images without alt text, heading issues); the list has at
\* most 6 entries, no title twice, and is empty when no rule is triggered.
C24_OnePerTriggeredRule ==
    BackendRecommended =>
        /\ \A k \in 1 .. Len(RuleTable) :
              Cardinality(Entries(RuleTable[k][2], RuleTable[k][1]))
                  = (IF RuleTable[k][3] THEN 1 ELSE 0)
        /\ \A i \in 1 .. Len(recommendations) :
              \E k \in 1 .. Len(RuleTable) : recommendations[i].title = RuleTable[k][2]
        /\ Len(recommendations) <= 6
        /\ \A i, j \in 1 .. Len(recommendations) :
              i # j => recommendations[i].title # recommendations[j].title
        /\ (\A k \in 1 .. Len(RuleTable) : ~RuleTable[k][3]) => recommendations = <<>>

\* two critical vulnerabilities (the core's and a plugin's) and one critical
\* entry, ahead of the entries of the four other triggered rules
C24_Witness ==
    /\ BackendRecommended
    /\ CountSeverity(security.vulnerabilities, "critical") = 2
    /\ [i \in 1 .. Len(recommendations) |-> recommendations[i].title]
          = <<"Critical Security Vulnerabilities Found", "Missing Cookie Banner",
              "Missing Privacy Policy", "Images Missing Alt Text", "Heading Structure Issues">>

\* a standard WordPress page with nothing at fault: no entry
C24_WitnessEmpty ==
    /\ BackendRecommended
    /\ security.isWordPress /\ ~security.isHardened
    /\ recommendations = <<>>


(***************************************************************************)
(* Claims about the worker's search analytics (checked under SpecRequest). *)
(***************************************************************************)
WorkerResponded == engine = "worker" /\ pc = "responded"

\* the url parameter is missing, or it is no url
ParamMissing   == request.kind = "absent" \/ request.value = <<>>
ParamMalformed == ~ParamMissing /\ NewURLThrows(request.value)

\* the answer the handler gives when nothing is wrong with the database
ExpectedAnswer ==
    IF ParamMissing THEN Answer(400, "URL parameter is required", "", <<>>)
    ELSE IF ParamMalformed THEN Answer(400, "Invalid URL format", "", <<>>)
    ELSE IF workerFetch(page).settled = "rejected"
         THEN Answer(500, "Failed to analyze website", workerFetch(page).message, <<>>)
         ELSE Answer(200, "", "", <<reports[Len(reports)]>>)

\* C26: every GET /api/analyze request handled by the worker causes exactly
\* one logSearchAnalytics call, made before the response is returned: with
\* the four scores and no error_message when the analysis succeeded, with an
\* error_message and no scores on a missing url, a malformed url or a failed
\* analysis; a failure of the database insert never changes the status or the
\* body of the response.
C26_OneLogPerRequest ==
    engine = "worker" =>
        /\ Len(logged) <= 1
        /\ pc = "responded" =>
              /\ Len(logged) = 1
              /\ response = ExpectedAnswer
              /\ IF response.status = 200
                 THEN /\ logged[1].scores = << response.body[1].overallScore,
                                               response.body[1].categoryScores.security,
                                               response.body[1].categoryScores.gdpr,
                                               response.body[1].categoryScores.accessibility >>
                      /\ logged[1].error_message = Undefined
                 ELSE /\ logged[1].scores = <<>>
                      /\ logged[1].error_message # Undefined
                      /\ logged[1].error_message # <<>>
        /\ Len(db.searches) <= Len(logged)

\* a report was answered with 200 although the insert of its row had failed
C26_Witness ==
    /\ WorkerResponded
    /\ response.status = 200
    /\ Len(logged) = 1 /\ Len(logged[1].scores) = 4
    /\ db.searches = <<>>

\* a malformed url and a failed analysis were logged with their messages, and
\* a missing url with an empty url
C26_WitnessMalformed ==
    /\ WorkerResponded
    /\ response.status = 400
    /\ logged = << SearchAnalytics(<<"example.com">>, <<>>, <<"Invalid URL format">>) >>
    /\ db.searches = logged

C26_WitnessFailed ==
    /\ WorkerResponded
    /\ response.status = 500
    /\ logged = << SearchAnalytics(HttpUrl, <<>>, <<"Failed to fetch website">>) >>

C26_WitnessMissing ==
    /\ WorkerResponded
    /\ logged = << SearchAnalytics(<<>>, <<>>, <<"URL parameter is required">>) >>
    /\ db.searches = <<>>


(***************************************************************************)
(* Claims about the admin sessions (checked under SpecAdmin).              *)
(***************************************************************************)
\* the last request was an analytics request, and it was answered with the data
AnalyticsAnswered == admin.last.op = "analytics"
AnalyticsServed   == AnalyticsAnswered /\ admin.last.status = 200

\* the token of the last request was issued by a successful login and no
\* logout of it has been answered since
SessionOpen ==
    /\ admin.last.token \in DOMAIN admin.issued
    /\ admin.last.token \notin admin.revoked

\* C25: over any sequence of admin login, logout and analytics requests, the
\* analytics are returned only for a bearer token that a successful login
\* issued and that has not been logged out since; every other request gets
\* 401, a failed login inserts no session, and after the logout of a token
\* every later analytics request with it is rejected.
C25_SessionGate ==
    /\ AnalyticsServed => SessionOpen
    /\ (AnalyticsAnswered /\ ~SessionOpen) => admin.last.status = 401
    /\ { row.session_token : row \in db.sessions } \subseteq DOMAIN admin.issued
    /\ Cardinality(db.sessions) <= Cardinality(DOMAIN admin.issued)

\* C25 for the logouts whose DELETE was carried out: what the handlers ensure
C25_DeletedSessionRejected ==
    /\ AnalyticsServed =>
          /\ admin.last.token \in DOMAIN admin.issued
          /\ admin.last.token \notin admin.deleted
    /\ (AnalyticsAnswered /\ (admin.last.token \notin DOMAIN admin.issued
                                \/ admin.last.token \in admin.deleted))
          => admin.last.status = 401
    /\ { row.session_token : row \in db.sessions } = DOMAIN admin.issued \ admin.deleted

\* the analytics were served for a token whose logout had been answered with
\* success while its DELETE had failed
C25_ServedAfterLogout ==
    /\ AnalyticsServed
    /\ admin.last.token \in admin.revoked
    /\ admin.last.token \notin admin.deleted

\* a wrong password and an unknown token were answered with 401, and the
\* token of a login was served
C25_FailedLogin ==
    /\ admin.last = Exchange("login", <<>>, 401, "Invalid credentials")
    /\ db.sessions = {}

C25_UnknownTokenRejected ==
    /\ admin.last = Exchange("analytics", <<"token-x">>, 401, "Unauthorized")
    /\ db.sessions # {}

C25_IssuedTokenServed ==
    /\ AnalyticsServed
    /\ SessionOpen


(***************************************************************************)
(* Claims about the lifetime of an admin session (checked under SpecAdmin).*)
(***************************************************************************)
\* the tokens whose session row is in the table
StoredTokens == { row.session_token : row \in db.sessions }

\* validateAdminSession now, with the query carried out
AcceptedNow(token) == validateAdminSession(db, token, clock, TRUE)

\* C29: an admin session lives 24 hours: a token issued by createAdminSession
\* at time t is accepted by validateAdminSession at every time before t + 24h
\* and rejected at every time at or after t + 24h, expires_at being stored as
\* an ISO-8601 string and compared against SQLite datetime('now').
C29_SessionLives24Hours ==
    \A token \in StoredTokens :
        AcceptedNow(token) <=> clock < admin.issued[token] + SessionHours

\* what the comparison of the two texts gives: the session is accepted until
\* the day of its expiry is over
C29_AcceptedThroughExpiryDay ==
    \A token \in StoredTokens :
        AcceptedNow(token) <=> DayOf(clock) <= DayOf(admin.issued[token] + SessionHours)

\* the analytics were served 36 hours after the login that issued the token
C29_ServedAfter36Hours ==
    /\ AnalyticsServed
    /\ admin.last.token \in StoredTokens
    /\ clock = admin.issued[admin.last.token] + 36

\* before its 24 hours are over a session is accepted, and on the day after
\* its expiry it is rejected
C29_ServedWithin24Hours ==
    /\ AnalyticsServed
    /\ admin.last.token \in StoredTokens
    /\ clock = admin.issued[admin.last.token] + 12

C29_RejectedNextDay ==
    /\ admin.last.op = "analytics" /\ admin.last.status = 401
    /\ admin.last.token \in StoredTokens
    /\ clock = admin.issued[admin.last.token] + 48


(***************************************************************************)
(* Claims about the score of a hardened site (checked under SpecSecurity). *)
(***************************************************************************)
\* C27: whenever SecurityAnalyzer.analyze returns isHardened = true the score
\* is exactly 100: no version is found and no vulnerability is listed, so the
\* sum 100 + 15 - 5 is cut to 100 and the missing-version penalty never shows.
C27_HardenedScores100 ==
    (SecurityDone /\ security.isHardened)
        => /\ security.isWordPress
           /\ security.score = 100
           /\ security.vulnerabilities = <<>>
           /\ ~Truthy(security.wordpressVersion)
           /\ SumPenalties(security.vulnerabilities) = 0

\* a hardened site that was scored
C27_Witness ==
    /\ SecurityDone
    /\ security.isHardened
    /\ ~Truthy(security.wordpressVersion)
    /\ security.score = 100

\* a standard WordPress site without a version shows the penalty of 10
C27_StandardShowsPenalty ==
    /\ SecurityDone
    /\ security.isWordPress
    /\ ~security.isHardened
    /\ ~Truthy(security.wordpressVersion)
    /\ security.vulnerabilities = <<>>
    /\ security.score = 90


(***************************************************************************)
(* Claims about what the backend finds on a site without an obvious signal *)
(* (checked under SpecBackendReport).                                      *)
(***************************************************************************)
SecurityKnown == engine = "backend" /\ pc # "security"

SecurityFindings ==
    \/ Truthy(security.wordpressVersion)
    \/ security.plugins # <<>>
    \/ security.themes # <<>>
    \/ security.vulnerabilities # <<>>

Recommended(title) == \E i \in DOMAIN recommendations : recommendations[i].title = title

CriticalTitle == "Critical Security Vulnerabilities Found"

\* C28: in every SecurityResult of the backend a version, a plugin, a theme or
\* a vulnerability is reported only if an obvious detection signal fired; so
\* they are all missing when isWordPress is false or isHardened is true, and
\* the recommendation list never holds 'WordPress Not Detected' or 'Excellent
\* Security Hardening' next to the critical-vulnerabilities entry.
C28_FindingsNeedObviousSignal ==
    /\ SecurityKnown =>
          /\ SecurityFindings => ObviousFired(doc)
          /\ (~security.isWordPress \/ security.isHardened) => ~SecurityFindings
    /\ (BackendRecommended /\ Recommended(CriticalTitle)) =>
          /\ ~Recommended("WordPress Not Detected")
          /\ ~Recommended("Excellent Security Hardening")

\* a report with plugins and the critical entry, and neither of the two others
C28_Witness ==
    /\ BackendRecommended
    /\ security.plugins # <<>>
    /\ CountSeverity(security.vulnerabilities, "critical") > 0
    /\ Recommended(CriticalTitle)
    /\ ObviousFired(doc)

\* a hardened site's report: nothing found, the hardening entry and no critical one
C28_WitnessHardened ==
    /\ BackendRecommended
    /\ security.isHardened
    /\ ~SecurityFindings
    /\ Recommended("Excellent Security Hardening")
    /\ ~Recommended(CriticalTitle)

\* a page that is not WordPress: nothing found, 'WordPress Not Detected'
C28_WitnessNotDetected ==
    /\ BackendRecommended
    /\ ~security.isWordPress
    /\ ~SecurityFindings
    /\ Recommended("WordPress Not Detected")


(***************************************************************************)
(* Claims about the admin frontend (checked under SpecAdminPanel).         *)
(***************************************************************************)
PanelOpen == pc = "panel" /\ panel.mounted

SignedIn == panel.sessionToken # Null

\* C30: whatever the order of the mount-time validation, logins, 401 answers
\* to the dashboard and logouts, the dashboard is rendered only when loading
\* is false and sessionToken is not null; a sessionToken that is not null is
\* also the token in localStorage; and right after a failed validation, a 401
\* from the analytics endpoint or a logout, sessionToken is null and the
\* stored token is gone.
C30_PanelSession ==
    pc = "panel" =>
        /\ Rendered(panel) = "dashboard" => (~panel.loading /\ SignedIn)
        /\ SignedIn => panel.stored = panel.sessionToken
        /\ panel.last \in {"validation failed", "unauthorized", "logged out"} =>
              (panel.sessionToken = Null /\ panel.stored = Null)

\* the dashboard after a login, with the token stored
C30_Witness ==
    /\ PanelOpen
    /\ panel.last = "logged in"
    /\ Rendered(panel) = "dashboard"
    /\ panel.stored = panel.sessionToken

\* a stored token was validated on mount
C30_WitnessValidated ==
    /\ PanelOpen
    /\ panel.last = "validated"
    /\ Rendered(panel) = "dashboard"
    /\ panel.stored = panel.sessionToken

\* a stored token was refused on mount
C30_WitnessRefused ==
    /\ PanelOpen
    /\ panel.last = "validation failed"
    /\ Rendered(panel) = "login"
    /\ panel.stored = Null

\* the dashboard got a 401 and the login form is back
C30_WitnessUnauthorized ==
    /\ PanelOpen
    /\ panel.last = "unauthorized"
    /\ Rendered(panel) = "login"

\* a logout was answered while a fetch of the dashboard is still in flight
C30_WitnessLateLogout ==
    /\ PanelOpen
    /\ panel.last = "logged out"
    /\ Rendered(panel) = "login"
    /\ \E i \in DOMAIN panel.inflight : panel.inflight[i].kind = "analytics"

====
